---- MODULE Spec2Model ----
(***************************************************************************)
(* A model of the controller session (Sender) and the response classifier  *)
(* (ResponseHandler) of nd_api_to_gui.                                      *)
(*                                                                         *)
(* Python values are represented as follows.                               *)
(*   dict          a function whose domain is the set of keys; a key whose *)
(*                 value is None is left out of the domain, because every  *)
(*                 read in the code goes through dict.get(), which returns *)
(*                 None for both.                                          *)
(*   enumerated    a TLA+ string ("" is Python's empty string).            *)
(*   string                                                                *)
(*   parsed string a sequence of lexical atoms (paths, URLs, tokens,       *)
(*                 header values), so that indexing and split() are        *)
(*                 computed, "" being << >>.                               *)
(***************************************************************************)
EXTENDS Integers, Sequences, FiniteSets, TLC

VARIABLES
    handler,        \* the ResponseHandler object: its fields _response, _result, _verb
    handler_call,   \* the ResponseHandler call made last and the exception it raised
    sender,         \* the Sender object: its fields, named as in Sender.__init__
    call,           \* the Sender call made last: the exception it raised, the requests
                    \* it handed to requests.request() and the responses it received
    calls,          \* the number of calls made on the Sender
    callers,        \* the callers sharing the Sender: whether they are serialized,
                    \* each caller's position in its configure-and-commit sequence, and
                    \* the request and the response its commit() is working on
    gui,            \* the RestApiToGui object: its fields, named as in RestApiToGui.__init__
    gui_call        \* the RestApiToGui call made last, the exception it raised and
                    \* the value it returned

vars == <<handler, handler_call, sender, call, calls, callers, gui, gui_call>>

\* The number of calls made on one Sender
MaxCalls == 3

\* The number of _update_status() calls explored on one Sender
MaxUpdates == 120

\* maxlen of the history deques
HistoryMaxlen == 50

EmptyDict == [k \in {} |-> 0]

\* dict.get(k) is not None
Has(d, k) == k \in DOMAIN d

\* A dict entry k: o[1] when the option o is present, no entry when it is << >>.
Field(k, o) == IF Len(o) = 0 THEN EmptyDict ELSE k :> o[1]

Opt(S) == {<< >>} \cup {<<x>> : x \in S}

(***************************************************************************)
(* ResponseHandler                                                         *)
(***************************************************************************)

\* Mutant: 404 is not an accepted status
return_codes_success_only_200 == {200}

return_codes_success == {200, 404}

valid_verbs == {"DELETE", "GET", "POST", "PUT"}

Result2(k1, v1, k2, v2) == (k1 :> v1) @@ (k2 :> v2)

\* Mutant: the 404 / "Not Found" case is not told apart
get_response_no_404(resp) ==
    IF \/ ~Has(resp, "RETURN_CODE")
       \/ resp["RETURN_CODE"] \notin {200, 404}
       \/ ~Has(resp, "MESSAGE")
       \/ resp["MESSAGE"] # "OK"
    THEN Result2("found", FALSE, "success", FALSE)
    ELSE Result2("found", TRUE, "success", TRUE)

\* ResponseHandler._get_response: the value assigned to _result
get_response(resp) ==
    IF Has(resp, "RETURN_CODE") /\ resp["RETURN_CODE"] = 404
       /\ Has(resp, "MESSAGE") /\ resp["MESSAGE"] = "Not Found"
    THEN Result2("found", FALSE, "success", TRUE)
    ELSE IF \/ ~Has(resp, "RETURN_CODE")
            \/ resp["RETURN_CODE"] \notin return_codes_success
            \/ ~Has(resp, "MESSAGE")
            \/ resp["MESSAGE"] # "OK"
         THEN Result2("found", FALSE, "success", FALSE)
         ELSE Result2("found", TRUE, "success", TRUE)

\* Mutant: the ERROR key is not read
post_put_delete_response_message_only(resp) ==
    IF Has(resp, "MESSAGE") /\ resp["MESSAGE"] # "OK"
    THEN Result2("success", FALSE, "changed", FALSE)
    ELSE Result2("success", TRUE, "changed", TRUE)

\* Mutant: a success is reported as unchanged
post_put_delete_response_unchanged(resp) ==
    IF Has(resp, "ERROR")
    THEN Result2("success", FALSE, "changed", FALSE)
    ELSE IF Has(resp, "MESSAGE") /\ resp["MESSAGE"] # "OK"
         THEN Result2("success", FALSE, "changed", FALSE)
         ELSE Result2("success", TRUE, "changed", FALSE)

\* Mutant: the ERROR key is tested for truth, so that an empty value passes
post_put_delete_response_truthy_error(resp) ==
    IF Has(resp, "ERROR") /\ resp["ERROR"] # ""
    THEN Result2("success", FALSE, "changed", FALSE)
    ELSE IF Has(resp, "MESSAGE") /\ resp["MESSAGE"] # "OK"
         THEN Result2("success", FALSE, "changed", FALSE)
         ELSE Result2("success", TRUE, "changed", TRUE)

\* Mutant: a status code that is not a success code makes the request fail
post_put_delete_response_checks_code(resp) ==
    IF Has(resp, "ERROR")
    THEN Result2("success", FALSE, "changed", FALSE)
    ELSE IF Has(resp, "MESSAGE") /\ resp["MESSAGE"] # "OK"
         THEN Result2("success", FALSE, "changed", FALSE)
         ELSE IF Has(resp, "RETURN_CODE") /\ resp["RETURN_CODE"] \notin return_codes_success
              THEN Result2("success", FALSE, "changed", FALSE)
              ELSE Result2("success", TRUE, "changed", TRUE)

\* ResponseHandler._post_put_delete_response: the value assigned to _result
post_put_delete_response(resp) ==
    IF Has(resp, "ERROR")
    THEN Result2("success", FALSE, "changed", FALSE)
    ELSE IF Has(resp, "MESSAGE") /\ resp["MESSAGE"] # "OK"
         THEN Result2("success", FALSE, "changed", FALSE)
         ELSE Result2("success", TRUE, "changed", TRUE)

\* ResponseHandler._handle_response, for a verb that is set
handle_response(v, resp) ==
    IF v = "GET" THEN get_response(resp) ELSE post_put_delete_response(resp)

(***************************************************************************)
(* Sender: strings that the code indexes or splits                         *)
(***************************************************************************)

\* The index of the first atom of s equal to sep, 0 when there is none.
Find(s, sep) ==
    IF \E i \in 1..Len(s) : s[i] = sep
    THEN CHOOSE i \in 1..Len(s) : s[i] = sep /\ \A j \in 1..(i - 1) : s[j] # sep
    ELSE 0

RECURSIVE split(_, _)
\* str.split(sep): the pieces of s between the occurrences of sep
split(s, sep) ==
    IF Find(s, sep) = 0
    THEN <<s>>
    ELSE <<SubSeq(s, 1, Find(s, sep) - 1)>> \o split(SubSeq(s, Find(s, sep) + 1, Len(s)), sep)

\* The bodies a controller answers with, as the text of the HTTP response.
TextLoginT1 == "{\"jwttoken\": \"T1\", \"rbac\": {\"role\": \"admin\"}}"
TextLoginT2 == "{\"jwttoken\": \"T2\", \"rbac\": {\"role\": \"admin\"}}"
TextNoRbac == "{\"jwttoken\": \"T2\"}"
TextToken == "{\"token\": \"abc123\"}"
TextError == "{\"ERROR\": \"invalid payload\"}"
TextEmpty == "{}"
TextHtml == "<html>Not Found</html>"
TextNull == "null"
TextEmptyToken == "{\"jwttoken\": \"\", \"rbac\": {\"role\": \"admin\"}}"

Texts == {TextLoginT1, TextLoginT2, TextNoRbac, TextToken, TextError, TextEmpty, TextHtml}

\* Whether json.loads(text) returns, rather than raising json.JSONDecodeError
json_valid(text) == text # TextHtml

\* Whether json.loads(text) returns None
json_null(text) == text = TextNull

\* json.loads(text), for the texts above
json_loads(text) ==
    CASE text = TextLoginT1 -> ("jwttoken" :> <<"T1">>) @@ ("rbac" :> ("role" :> "admin"))
      [] text = TextLoginT2 -> ("jwttoken" :> <<"T2">>) @@ ("rbac" :> ("role" :> "admin"))
      [] text = TextNoRbac -> ("jwttoken" :> <<"T2">>)
      [] text = TextEmptyToken -> ("jwttoken" :> << >>) @@ ("rbac" :> ("role" :> "admin"))
      [] text = TextToken -> ("token" :> <<"abc123">>)
      [] text = TextError -> ("ERROR" :> "invalid payload")
      [] text = TextEmpty -> EmptyDict

(***************************************************************************)
(* Sender                                                                  *)
(***************************************************************************)

\* The result of a call: the object as the call leaves it, the exception raised
\* ("None" when the call returned), the requests handed to requests.request()
\* and the responses received, in order.
Out(obj, raised, sent, recv) == [obj |-> obj, raised |-> raised, sent |-> sent, recv |-> recv]

\* Sender._verify_commit_parameters, the tests of _ip4, _ip6 and _path: TRUE
\* when one of them raises ValueError
verify_path_raises(s) ==
    \/ (s.ip4 = "" /\ s.ip6 = "")
    \/ s.path = << >>

\* Sender._verify_commit_parameters, the test of _verb
verify_verb_raises(s) == s.verb = ""

\* Mutant: verb is not checked
verify_commit_parameters_raises_no_verb(s) == verify_path_raises(s)

\* Sender._verify_commit_parameters: TRUE when it raises ValueError
verify_commit_parameters_raises(s) == verify_path_raises(s) \/ verify_verb_raises(s)

\* Sender._get_host, when ip4 or ip6 is set
get_host(s) == IF s.ip4 # "" THEN s.ip4 ELSE s.ip6

\* Sender._get_host raises ValueError
get_host_raises(s) == s.ip4 = "" /\ s.ip6 = ""

\* Mutant: the URL is built once and kept
set_url_from_keeps_url(s, slash) ==
    IF s.url # << >> THEN s.url
    ELSE IF slash
    THEN <<"https://", get_host(s)>> \o s.path
    ELSE <<"https://", get_host(s), "/">> \o s.path

\* Sender._set_url: the value assigned to _url, slash being the outcome of the
\* test path[0] == "/" made before _get_host() and path are read
set_url_from(s, slash) ==
    IF slash
    THEN <<"https://", get_host(s)>> \o s.path
    ELSE <<"https://", get_host(s), "/">> \o s.path

\* Mutant: a "/" is always put between the host and the path
set_url_always_adds_slash(s) == <<"https://", get_host(s), "/">> \o s.path

\* Sender._set_url: the value assigned to _url (path is not empty)
set_url(s) == set_url_from(s, s.path[1] = "/")

\* Sender._get_headers: the dict it builds from the three values it reads
\* from _token, one for each of Cookie, AuthCookie and Authorization
get_headers_from(cookie, authcookie, authorization) ==
    ("Cookie" :> (<<"AuthCookie", "=">> \o cookie))
    @@ ("AuthCookie" :> authcookie)
    @@ ("Content-Type" :> <<"application/json">>)
    @@ ("Authorization" :> authorization)

\* Sender._get_headers
get_headers(s) == get_headers_from(s.token, s.token, s.token)

\* The arguments of requests.request() in Sender.commit, evaluated in this
\* order; data is json.dumps(payload)
request_from(verb, url, headers, payload, timeout) ==
    [verb |-> verb, url |-> url, headers |-> headers,
     data |-> [json_dumps |-> payload], timeout |-> timeout]

\* The arguments of requests.request() in Sender.commit
request(s) == request_from(s.verb, s.url, get_headers(s), s.payload, s.timeout)

\* Sender._gen_response raises IndexError: a Set-Cookie value without "="
gen_response_raises(r) ==
    Has(r.headers, "Set-Cookie") /\ Len(split(r.headers["Set-Cookie"], "=")) < 2

\* Sender._gen_response: the token after it, token.split("=")[1].split(";")[0]
gen_response_token(s, r) ==
    IF Has(r.headers, "Set-Cookie")
    THEN split(split(r.headers["Set-Cookie"], "=")[2], ";")[1]
    ELSE s.token

\* Sender._gen_response: the DATA entry of the dict assigned to response (an
\* entry whose value is None is an absent key)
response_data(text) ==
    IF ~json_valid(text) THEN "DATA" :> ("INVALID_JSON" :> text)
    ELSE IF json_null(text) THEN EmptyDict
    ELSE "DATA" :> json_loads(text)

\* Sender._gen_response: the dict assigned to response
response_dict(r, req) ==
    ("RETURN_CODE" :> r.status_code)
    @@ response_data(r.text)
    @@ ("MESSAGE" :> r.reason)
    @@ ("METHOD" :> req.verb)
    @@ ("REQUEST_PATH" :> req.url)

\* Sender._gen_response, the assignment of _token
gen_response_set_token(s, r, req) ==
    IF gen_response_raises(r)
    THEN Out(s, "IndexError", <<req>>, <<r>>)
    ELSE Out([s EXCEPT !.token = gen_response_token(s, r)], "None", <<req>>, <<r>>)

\* Sender._gen_response, the assignment of _return_code
gen_response_set_return_code(s, r, req) ==
    Out([s EXCEPT !.return_code = r.status_code], "None", <<req>>, <<r>>)

\* Sender._gen_response, the assignment of response
gen_response_set_response(s, r, req) ==
    Out([s EXCEPT !.response = response_dict(r, req)], "None", <<req>>, <<r>>)

\* Sender._gen_response, for the response r to the request req
gen_response(s, r, req) ==
    LET o == gen_response_set_token(s, r, req)
    IN  IF o.raised # "None" THEN o
        ELSE gen_response_set_response(gen_response_set_return_code(o.obj, r, req).obj, r, req)

\* requests.request() prepares the request before it sends it: the URL of an
\* IPv6 address that is not in brackets does not parse, and InvalidURL is raised
prepare_url_raises(url) == url[2] = "2001:db8::1"

\* Sender.commit, up to the return of _set_url(): the parameters are verified
\* and _url is built from the host and the path
commit_set_url(s) ==
    IF verify_commit_parameters_raises(s)
    THEN Out(s, "ValueError: Not all mandatory parameters are set", << >>, << >>)
    ELSE Out([s EXCEPT !.url = set_url(s)], "None", << >>, << >>)

\* requests.request() turns the timeout into a urllib3 Timeout before it
\* sends the request, and a Timeout that is not positive raises ValueError
timeout_raises(timeout) == timeout <= 0

\* requests.request(), before it sends the request req: the exception it
\* raises, "None" when the request is sent. The URL is parsed first.
requests_request_raises(req) ==
    IF prepare_url_raises(req.url) THEN "InvalidURL"
    ELSE IF timeout_raises(req.timeout) THEN "ValueError: Attempted to set connect timeout"
    ELSE "None"

\* The exceptions requests.request() raises for a request it does not send
RequestRefused == {"InvalidURL", "ValueError: Attempted to set connect timeout"}

\* Sender.commit, the call of requests.request(): verb, _url, the headers,
\* payload and _timeout are read as they are now, and raised is "None" when the
\* request is about to be sent. InvalidURL and the ValueError of a timeout are
\* not a ConnectionError, and commit() lets them pass.
commit_call_requests(s) ==
    Out(s, requests_request_raises(request(s)), <<request(s)>>, << >>)

\* Sender.commit, up to the point where requests.request() has taken the
\* request
commit_request(s) ==
    LET o == commit_set_url(s)
    IN  IF o.raised # "None" THEN o ELSE commit_call_requests(o.obj)

\* Sender.commit, from the point where requests.request() returns or raises
\* up to the call of _gen_response, net being what requests.request() does
\* with the request req: it returns a response, or raises ConnectionError, or
\* raises another exception (a ReadTimeout is not a ConnectionError).
commit_receive(s, req, net) ==
    CASE net.kind = "ConnectionError" ->
            Out(s, "ValueError: Error connecting to the controller", <<req>>, << >>)
      [] net.kind = "ReadTimeout" ->
            Out(s, "ReadTimeout", <<req>>, << >>)
      [] net.kind = "Response" ->
            Out([s EXCEPT !.payload = EmptyDict], "None", <<req>>, <<net.r>>)

\* Sender.commit, from the point where requests.request() returns or raises
commit_response(s, req, net) ==
    LET o == commit_receive(s, req, net)
    IN  IF o.raised # "None" THEN o ELSE gen_response(o.obj, net.r, req)

\* Mutant: a request that ends in ConnectionError is made a second time
commit_retries(s, net) ==
    LET o == commit_request(s)
    IN  IF o.raised # "None" THEN o
        ELSE IF net.kind = "ConnectionError"
             THEN Out(o.obj, "ValueError: Error connecting to the controller",
                      <<o.sent[1], o.sent[1]>>, << >>)
             ELSE commit_response(o.obj, o.sent[1], net)

\* Sender.commit, called by the only caller of the Sender
commit(s, net) ==
    LET o == commit_request(s)
    IN  IF o.raised # "None" THEN o ELSE commit_response(o.obj, o.sent[1], net)

\* Mutant: _token is not assigned
update_token_jwttoken_only(o) ==
    IF ~Has(o.obj.response, "DATA")
    THEN [o EXCEPT !.raised = "TypeError"]
    ELSE LET data == o.obj.response["DATA"]
         IN  IF ~Has(data, "jwttoken")
             THEN [o EXCEPT !.raised = "ValueError: Unable to parse token from response"]
             ELSE IF ~Has(data, "rbac")
                  THEN [o EXCEPT !.obj.jwttoken = data["jwttoken"],
                                 !.raised = "ValueError: Unable to parse token from response"]
                  ELSE [o EXCEPT !.obj.jwttoken = data["jwttoken"],
                                 !.obj.rbac = data["rbac"]]

\* Mutant: the token taken from a session cookie is kept
update_token_prefers_cookie(o) ==
    LET u == update_token_jwttoken_only(o)
        cookie == Len(o.recv) = 1 /\ Has(o.recv[1].headers, "Set-Cookie")
    IN  IF cookie \/ ~Has(o.obj.response, "DATA") \/ ~Has(o.obj.response["DATA"], "jwttoken")
        THEN u
        ELSE [u EXCEPT !.obj.token = o.obj.response["DATA"]["jwttoken"]]

\* Sender._update_token, after a commit that returned. Only KeyError is
\* caught: subscripting a DATA of None raises TypeError.
update_token(o) ==
    IF ~Has(o.obj.response, "DATA")
    THEN [o EXCEPT !.raised = "TypeError"]
    ELSE LET data == o.obj.response["DATA"]
         IN  IF ~Has(data, "jwttoken")
             THEN [o EXCEPT !.raised = "ValueError: Unable to parse token from response"]
             ELSE IF ~Has(data, "rbac")
                  THEN [o EXCEPT !.obj.token = data["jwttoken"],
                                 !.obj.jwttoken = data["jwttoken"],
                                 !.raised = "ValueError: Unable to parse token from response"]
                  ELSE [o EXCEPT !.obj.token = data["jwttoken"],
                                 !.obj.jwttoken = data["jwttoken"],
                                 !.obj.rbac = data["rbac"]]

\* The payload login() and refresh_login() build
login_payload(s) ==
    ("userName" :> s.username) @@ ("userPasswd" :> s.password) @@ ("domain" :> s.domain)

\* Sender.login: the message of the ValueError it raises for missing credentials
\* (every check runs, the last one that fails sets the message)
login_error(s) ==
    IF s.domain = "" THEN "ValueError: call Sender.domain before calling Sender.login()"
    ELSE IF s.password = "" THEN "ValueError: call Sender.password before calling Sender.login()"
    ELSE "ValueError: call Sender.username before calling Sender.login()"

\* Sender.refresh_login: the message of the ValueError it raises for missing
\* credentials (the first check that fails raises)
refresh_login_error(s) ==
    IF s.username = "" THEN "ValueError: call Sender.username before calling Sender.refresh_login()"
    ELSE IF s.password = "" THEN "ValueError: call Sender.password before calling Sender.refresh_login()"
    ELSE "ValueError: call Sender.domain before calling Sender.refresh_login()"

\* Mutant: domain is not checked
credentials_missing_no_domain(s) == s.username = "" \/ s.password = ""

\* Sender.login, Sender.refresh_login: one of the credential checks raises
credentials_missing(s) == s.username = "" \/ s.password = "" \/ s.domain = ""

\* Sender.login, from the credential checks on (the session is not logged in)
login_round_trip(s, net) ==
    IF credentials_missing(s)
    THEN Out(s, login_error(s), << >>, << >>)
    ELSE LET s1 == [s EXCEPT !.logged_in = FALSE, !.path = <<"/", "login">>]
         IN  IF get_host_raises(s1)
             THEN Out(s1, "ValueError: ip4 or ip6 must be set", << >>, << >>)
             ELSE LET s2 == [s1 EXCEPT !.url = set_url(s1),
                                       !.payload = login_payload(s1),
                                       !.headers = ("Content-Type" :> <<"application/json">>),
                                       !.verb = "POST"]
                      o == commit(s2, net)
                  IN  IF o.raised # "None"
                      THEN o
                      ELSE LET u == update_token(o)
                           IN  IF u.raised # "None"
                               THEN u
                               ELSE [u EXCEPT !.obj.logged_in = TRUE]

\* Mutant: login does not return early when logged in
login_no_guard(s, net) == login_round_trip(s, net)

\* Mutant: login returns early when the session holds a token
login_skips_with_token(s, net) ==
    IF s.logged_in \/ s.token # << >> THEN Out(s, "None", << >>, << >>) ELSE login_round_trip(s, net)

\* Sender.login
login(s, net) ==
    IF s.logged_in THEN Out(s, "None", << >>, << >>) ELSE login_round_trip(s, net)

\* Mutant: _update_token is not called
refresh_login_no_update_token(s, net) ==
    IF credentials_missing(s)
    THEN Out(s, refresh_login_error(s), << >>, << >>)
    ELSE LET s1 == [s EXCEPT !.path = <<"/", "refresh">>]
         IN  IF get_host_raises(s1)
             THEN Out(s1, "ValueError: ip4 or ip6 must be set", << >>, << >>)
             ELSE LET s2 == [s1 EXCEPT !.url = set_url(s1),
                                       !.payload = login_payload(s1),
                                       !.headers = ("Content-Type" :> <<"application/json">>)
                                                   @@ ("Cookie" :> (<<"AuthCookie", "=">> \o s1.jwttoken))
                                                   @@ ("Authorization" :> s1.token)]
                  IN  commit(s2, net)

\* Mutant: a refresh that returns sets _logged_in
refresh_login_logs_in(s, net) ==
    IF credentials_missing(s)
    THEN Out(s, refresh_login_error(s), << >>, << >>)
    ELSE LET s1 == [s EXCEPT !.path = <<"/", "refresh">>]
         IN  IF get_host_raises(s1)
             THEN Out(s1, "ValueError: ip4 or ip6 must be set", << >>, << >>)
             ELSE LET s2 == [s1 EXCEPT !.url = set_url(s1),
                                       !.payload = login_payload(s1),
                                       !.headers = ("Content-Type" :> <<"application/json">>)
                                                   @@ ("Cookie" :> (<<"AuthCookie", "=">> \o s1.jwttoken))
                                                   @@ ("Authorization" :> s1.token)]
                      o == commit(s2, net)
                      u == update_token(o)
                  IN  IF o.raised # "None" THEN o
                      ELSE IF u.raised # "None" THEN u
                      ELSE [u EXCEPT !.obj.logged_in = TRUE]

\* Sender.refresh_login
refresh_login(s, net) ==
    IF credentials_missing(s)
    THEN Out(s, refresh_login_error(s), << >>, << >>)
    ELSE LET s1 == [s EXCEPT !.path = <<"/", "refresh">>]
         IN  IF get_host_raises(s1)
             THEN Out(s1, "ValueError: ip4 or ip6 must be set", << >>, << >>)
             ELSE LET s2 == [s1 EXCEPT !.url = set_url(s1),
                                       !.payload = login_payload(s1),
                                       !.headers = ("Content-Type" :> <<"application/json">>)
                                                   @@ ("Cookie" :> (<<"AuthCookie", "=">> \o s1.jwttoken))
                                                   @@ ("Authorization" :> s1.token)]
                      o == commit(s2, net)
                  IN  IF o.raised # "None" THEN o ELSE update_token(o)

\* collections.deque(maxlen=50).appendleft(x): x becomes the first element, and
\* a full deque discards the element at its other end
appendleft(d, x) ==
    IF Len(d) >= HistoryMaxlen THEN <<x>> \o SubSeq(d, 1, HistoryMaxlen - 1) ELSE <<x>> \o d

\* Mutant: the deque has no maxlen
add_history_rc_unbounded(s, x) == [s EXCEPT !.history_rc = <<x>> \o @]

\* Sender._add_history_rc
add_history_rc(s, x) == [s EXCEPT !.history_rc = appendleft(@, x)]

\* Sender._add_history_path
add_history_path(s, path) == [s EXCEPT !.history_path = appendleft(@, path)]

\* Sender._update_status. No method of Sender calls it ("Not using currently"):
\* commit(), login() and refresh_login() above leave last_rc, last_url,
\* history_rc and history_path as __init__ set them.
update_status(s) ==
    add_history_path(
        add_history_rc([s EXCEPT !.last_rc = s.return_code, !.last_url = s.url], s.return_code),
        s.url)

(***************************************************************************)
(* The values the calls are made with                                      *)
(***************************************************************************)

Ip4s == {"", "10.1.1.1"}
Ip6s == {"", "2001:db8::1", "[2001:db8::1]"}
Usernames == {"", "admin"}
Passwords == {"", "secret"}
Domains == {"", "local"}
Paths == {<< >>, <<"/", "templates">>, <<"templates">>}
Verbs == {"", "GET", "PUT"}
Payloads == {EmptyDict, "name" :> "fabric1"}

\* The dicts handed to the headers, rbac and response setters of a Sender
HeaderDicts == {"X-Test" :> <<"1">>}
Rbacs == {"role" :> "admin"}
SenderResponseDicts == {("RETURN_CODE" :> 200) @@ ("MESSAGE" :> "OK")}

\* A Python value handed to a setter that type-checks it
PyDict(d) == [type |-> "dict", value |-> d]
PyStr == [type |-> "str", value |-> EmptyDict]
PyInt(n) == [type |-> "int", value |-> n]

\* The integers handed to the timeout setter
Timeouts == {-5, 0, 10}

Statuses == {<<200, "OK">>, <<404, "Not Found">>, <<500, "Internal Server Error">>}

\* A Set-Cookie header that carries the session cookie with value T
SessionCookie(T) == <<"AuthCookie", "=">> \o T \o <<";", "Path", "=", "/">>

\* The values of a session cookie: a plain one, one that contains "=" and the
\* empty one
CookieValues == {<<"C1">>, <<"abc", "=", "=">>, << >>}

\* The Set-Cookie headers of a response: a session cookie, or a header
\* without "="
SetCookies == {SessionCookie(T) : T \in CookieValues} \cup {<<"AuthCookie">>}

\* requests.Response: status_code, reason, headers, text
ResponsesOf(statuses, cookies, texts) ==
    {[status_code |-> st[1], reason |-> st[2], headers |-> Field("Set-Cookie", c), text |-> t] :
        st \in statuses, c \in cookies, t \in texts}

\* The responses a Sender receives. Sender reads the Set-Cookie header and the
\* jwttoken and rbac keys of the body, and stores the rest: every body with
\* status 200, without a Set-Cookie header, with a plain session cookie and
\* with a header without "="; a login body with each of the other session
\* cookies; a status 200 whose body is the JSON null or carries an empty
\* token; and a status 500 with and without a token in the body.
Responses ==
    ResponsesOf({<<200, "OK">>}, Opt({SessionCookie(<<"C1">>), <<"AuthCookie">>}),
                {TextLoginT1, TextLoginT2, TextNoRbac, TextToken, TextHtml})
    \cup ResponsesOf({<<200, "OK">>}, Opt(SetCookies), {TextLoginT1})
    \cup ResponsesOf({<<200, "OK">>}, {<< >>}, {TextNull, TextEmptyToken})
    \cup ResponsesOf({<<500, "Internal Server Error">>}, {<< >>}, {TextLoginT2, TextHtml})

\* The responses whose dict is handed to a ResponseHandler: ResponseHandler
\* reads the status, the reason and the keys of the dict.
HandlerResponses == ResponsesOf(Statuses, {<< >>}, Texts)

NoResponse == [status_code |-> 0, reason |-> "", headers |-> EmptyDict, text |-> ""]

\* What requests.request() does
Network ==
    {[kind |-> "ConnectionError", r |-> NoResponse], [kind |-> "ReadTimeout", r |-> NoResponse]}
    \cup {[kind |-> "Response", r |-> r] : r \in Responses}

(***************************************************************************)
(* Sender: construction and calls                                          *)
(***************************************************************************)

\* Sender.__init__, env being the values of ND_DOMAIN, ND_IP4, ND_IP6,
\* ND_PASSWORD and ND_USERNAME (or their defaults)
sender_init(env) ==
    [domain |-> env.domain, headers |-> EmptyDict, history_rc |-> << >>, history_path |-> << >>,
     ip4 |-> env.ip4, ip6 |-> env.ip6, jwttoken |-> << >>, last_rc |-> -1, last_url |-> << >>,
     logged_in |-> FALSE, password |-> env.password, path |-> << >>, payload |-> EmptyDict,
     rbac |-> EmptyDict, return_code |-> -1, response |-> EmptyDict, timeout |-> 30,
     token |-> << >>, url |-> << >>, username |-> env.username, verb |-> ""]

Environments == [domain : Domains, ip4 : Ip4s, ip6 : Ip6s, password : Passwords, username : Usernames]

Returned(op) == [op |-> op, raised |-> "None", sent |-> << >>, recv |-> << >>]

Called(op, o) == [op |-> op, raised |-> o.raised, sent |-> o.sent, recv |-> o.recv]

\* A setter that stores its value unchecked
Set(field, v) ==
    /\ calls < MaxCalls
    /\ calls' = calls + 1
    /\ sender' = [sender EXCEPT ![field] = v]
    /\ call' = Returned(field)
    /\ UNCHANGED <<handler, handler_call, callers, gui, gui_call>>

SetIp4 == \E v \in Ip4s : Set("ip4", v)
SetIp6 == \E v \in Ip6s : Set("ip6", v)
SetUsername == \E v \in Usernames : Set("username", v)
SetPassword == \E v \in Passwords : Set("password", v)
SetDomain == \E v \in Domains : Set("domain", v)
SetPath == \E v \in Paths : Set("path", v)
SetVerb == \E v \in Verbs : Set("verb", v)

\* Sender.headers setter: the value is stored unchecked
SetHeaders == \E v \in HeaderDicts : Set("headers", v)

\* Sender.rbac setter: the value is stored unchecked
SetRbac == \E v \in Rbacs : Set("rbac", v)

\* Sender.response setter: the exception it raises for value
sender_response_setter_raises(v) == IF v.type # "dict" THEN "TypeError" ELSE "None"

\* Sender.response setter
SenderSetResponse ==
    \E v \in {PyDict(d) : d \in SenderResponseDicts} \cup {PyStr} :
        /\ calls < MaxCalls
        /\ calls' = calls + 1
        /\ sender' = IF sender_response_setter_raises(v) = "None"
                      THEN [sender EXCEPT !.response = v.value] ELSE sender
        /\ call' = [Returned("response") EXCEPT !.raised = sender_response_setter_raises(v)]
        /\ UNCHANGED <<handler, handler_call, callers, gui, gui_call>>

\* Sender.payload setter
SetPayload ==
    \E v \in {PyDict(d) : d \in Payloads} \cup {PyStr} :
        /\ calls < MaxCalls
        /\ calls' = calls + 1
        /\ sender' = IF v.type = "dict" THEN [sender EXCEPT !.payload = v.value] ELSE sender
        /\ call' = [Returned("payload") EXCEPT !.raised = IF v.type = "dict" THEN "None" ELSE "TypeError"]
        /\ UNCHANGED <<handler, handler_call, callers, gui, gui_call>>

\* Mutant: an int that is not positive is refused
timeout_setter_raises_non_positive(v) ==
    IF v.type # "int" THEN "TypeError" ELSE IF v.value <= 0 THEN "ValueError" ELSE "None"

\* Sender.timeout setter: the exception it raises for value
timeout_setter_raises(v) == IF v.type # "int" THEN "TypeError" ELSE "None"

\* Sender.timeout setter; the call records the value it was made with
SetTimeout ==
    \E v \in {PyInt(n) : n \in Timeouts} \cup {PyStr} :
        /\ calls < MaxCalls
        /\ calls' = calls + 1
        /\ sender' = IF timeout_setter_raises(v) = "None"
                      THEN [sender EXCEPT !.timeout = v.value] ELSE sender
        /\ call' = [op |-> "timeout", raised |-> timeout_setter_raises(v),
                    sent |-> << >>, recv |-> << >>, value |-> v]
        /\ UNCHANGED <<handler, handler_call, callers, gui, gui_call>>

Do(op, o) ==
    /\ calls < MaxCalls
    /\ calls' = calls + 1
    /\ sender' = o.obj
    /\ call' = Called(op, o)
    /\ UNCHANGED <<handler, handler_call, callers, gui, gui_call>>

Commit == \E net \in Network : Do("commit", commit(sender, net))
Login == \E net \in Network : Do("login", login(sender, net))
RefreshLogin == \E net \in Network : Do("refresh_login", refresh_login(sender, net))

\* Sender._update_status, called on the Sender as it is: it copies
\* _return_code and _url, which _gen_response() and _set_url() assign. The call
\* records the histories it was made on.
UpdateStatus ==
    /\ calls < MaxUpdates
    /\ calls' = calls + 1
    /\ sender' = update_status(sender)
    /\ call' = [op |-> "_update_status", raised |-> "None", sent |-> << >>, recv |-> << >>,
                value |-> [history_rc |-> sender.history_rc, history_path |-> sender.history_path]]
    /\ UNCHANGED <<handler, handler_call, callers, gui, gui_call>>

(***************************************************************************)
(* ResponseHandler: construction and calls                                 *)
(***************************************************************************)

\* ResponseHandler.__init__
handler_init == [response |-> EmptyDict, result |-> EmptyDict, verb |-> ""]

HandlerCodes == {200, 404, 500}
HandlerMessages == {"OK", "Not Found", ""}
HandlerErrors == {"", "invalid payload"}
HandlerVerbs == valid_verbs \cup {"", "PATCH"}

\* The dicts handed to the response setter: every combination of the three
\* keys the handler reads, and the dicts Sender builds from the controller's
\* responses.
HandlerDicts ==
    {Field("RETURN_CODE", c) @@ Field("MESSAGE", m) @@ Field("ERROR", e) :
        c \in Opt(HandlerCodes), m \in Opt(HandlerMessages), e \in Opt(HandlerErrors)}

\* ResponseHandler.verb setter
HandlerSetVerb ==
    \E v \in HandlerVerbs :
        /\ handler' = IF v \in valid_verbs THEN [handler EXCEPT !.verb = v] ELSE handler
        /\ handler_call' = [op |-> "verb", raised |-> IF v \in valid_verbs THEN "None" ELSE "ValueError",
                            value |-> v]
        /\ UNCHANGED <<sender, call, calls, callers, gui, gui_call>>

\* Mutant: an empty MESSAGE is refused
response_setter_raises_empty_message(v) ==
    IF v.type # "dict" THEN "TypeError"
    ELSE IF ~Has(v.value, "MESSAGE") \/ v.value["MESSAGE"] = "" THEN "ValueError"
    ELSE IF ~Has(v.value, "RETURN_CODE") THEN "ValueError"
    ELSE "None"

\* ResponseHandler.response setter: the exception it raises for value
response_setter_raises(v) ==
    IF v.type # "dict" THEN "TypeError"
    ELSE IF ~Has(v.value, "MESSAGE") THEN "ValueError"
    ELSE IF ~Has(v.value, "RETURN_CODE") THEN "ValueError"
    ELSE "None"

\* Mutant: the response setter discards the result of the last commit
SetResponse_clears_result(v) ==
    /\ handler' = IF response_setter_raises(v) = "None"
                  THEN [handler EXCEPT !.response = v.value, !.result = EmptyDict] ELSE handler
    /\ handler_call' = [op |-> "response", raised |-> response_setter_raises(v), value |-> v]
    /\ UNCHANGED <<sender, call, calls, callers, gui, gui_call>>

\* ResponseHandler.response setter
SetResponse(v) ==
    /\ handler' = IF response_setter_raises(v) = "None"
                  THEN [handler EXCEPT !.response = v.value] ELSE handler
    /\ handler_call' = [op |-> "response", raised |-> response_setter_raises(v), value |-> v]
    /\ UNCHANGED <<sender, call, calls, callers, gui, gui_call>>

HandlerSetResponse == \E v \in {PyDict(d) : d \in HandlerDicts} \cup {PyStr} : SetResponse(v)

\* The response setter, called with the dict Sender.commit() built for a request
HandlerSetSenderResponse ==
    \E r \in HandlerResponses, v \in {"GET", "PUT"} :
        /\ SetResponse(PyDict(response_dict(r, [verb |-> v, url |-> <<"https://", "10.1.1.1", "/", "templates">>])))

\* ResponseHandler._handle_response: the exception it raises
handle_response_raises(h) == IF h.verb = "" THEN "ValueError" ELSE "None"

\* Mutant: commit does not check that response is set
handler_commit_raises_no_response_check(h) ==
    IF h.verb = "" THEN "ValueError" ELSE "None"

\* ResponseHandler.commit: the exception it raises
handler_commit_raises(h) ==
    IF h.response = EmptyDict THEN "ValueError"
    ELSE IF h.verb = "" THEN "ValueError"
    ELSE handle_response_raises(h)

\* Mutant: the new result is merged into the stored one
handler_commit_updates_result(h) ==
    IF handler_commit_raises(h) = "None"
    THEN [h EXCEPT !.result = handle_response(h.verb, h.response) @@ h.result]
    ELSE h

\* ResponseHandler.commit
handler_commit(h) ==
    IF handler_commit_raises(h) = "None"
    THEN [h EXCEPT !.result = handle_response(h.verb, h.response)]
    ELSE h

HandlerCommit ==
    /\ handler' = handler_commit(handler)
    /\ handler_call' = [op |-> "commit", raised |-> handler_commit_raises(handler)]
    /\ UNCHANGED <<sender, call, calls, callers, gui, gui_call>>

(***************************************************************************)
(* Two callers sharing one Sender                                          *)
(***************************************************************************)

Callers == {"A", "B"}

\* The request each caller configures before it calls commit()
CallerRequest ==
    [A |-> [path |-> <<"/", "fabrics">>, verb |-> "PUT", payload |-> ("name" :> "fabric1")],
     B |-> [path |-> <<"/", "templates">>, verb |-> "GET", payload |-> EmptyDict]]

\* Each caller runs: set path, set verb, set payload, commit. The callers are
\* threads, and a thread can be suspended between any two of its reads and
\* writes of the Sender's fields, so a step of a caller holds one read or one
\* write of a field the other caller writes (_path, _verb, _payload, _url,
\* _token, _return_code, _response), in the order commit() makes them. The
\* reads that only build a log message are not steps.
CallerSteps ==
    <<"path", "verb", "payload",
      "verify_path", "verify_verb",
      "path_none", "path_slash", "path_read", "url",
      "payload_none", "read_verb", "read_url",
      "cookie", "authcookie", "authorization",
      "request", "answer", "token", "return_code", "response", "done">>

\* The position of a step in CallerSteps
CallerStep(step) == CHOOSE i \in DOMAIN CallerSteps : CallerSteps[i] = step

\* What a caller's commit() holds in its own frames: the outcome of the test
\* path[0] == "/", the URL _set_url built, the verb, the URL and the three
\* values of _token read for requests.request(), the request that
\* requests.request() has taken and the response it has returned
caller_locals ==
    [slash |-> FALSE, built |-> << >>, verb |-> "", url |-> << >>,
     cookie |-> << >>, authcookie |-> << >>, authorization |-> << >>,
     request |-> << >>, response |-> << >>]

\* The callers before their first call
callers_init(serialized) ==
    [serialized |-> serialized, pc |-> [c \in Callers |-> 1],
     local |-> [c \in Callers |-> caller_locals]]

\* Caller c may take its next step: it has one left and, when the callers
\* serialize their use of the Sender, no other caller is inside its sequence.
CallerMayStep(c, step) ==
    /\ CallerSteps[callers.pc[c]] = step
    /\ callers.serialized => \A d \in Callers \ {c} : CallerSteps[callers.pc[d]] \in {"path", "done"}

\* A step of caller c: it leaves the Sender as obj and the caller's frames as
\* local (they are gone when commit() is over)
CallerDoes(c, step, next, obj, local, observed) ==
    /\ CallerMayStep(c, step)
    /\ callers' = [callers EXCEPT !.pc[c] = CallerStep(next),
                                  !.local[c] = IF next = "done" THEN caller_locals ELSE local]
    /\ sender' = obj
    /\ call' = [caller |-> c] @@ observed
    /\ UNCHANGED <<handler, handler_call, calls, gui, gui_call>>

\* A step of caller c that reads the Sender and goes on
CallerReads(c, step, next, local, op) == CallerDoes(c, step, next, sender, local, Returned(op))

\* A step of caller c in which commit() raises
CallerRaises(c, step, obj, raised, sent, recv) ==
    CallerDoes(c, step, "done", obj, caller_locals, Called("commit", Out(obj, raised, sent, recv)))

\* Sender.path setter, called by one of the callers
CallerSetPath ==
    \E c \in Callers :
        CallerDoes(c, "path", "verb", [sender EXCEPT !.path = CallerRequest[c].path],
                   callers.local[c], Returned("path"))

\* Sender.verb setter, called by one of the callers
CallerSetVerb ==
    \E c \in Callers :
        CallerDoes(c, "verb", "payload", [sender EXCEPT !.verb = CallerRequest[c].verb],
                   callers.local[c], Returned("verb"))

\* Sender.payload setter, called by one of the callers
CallerSetPayload ==
    \E c \in Callers :
        CallerDoes(c, "payload", "verify_path", [sender EXCEPT !.payload = CallerRequest[c].payload],
                   callers.local[c], Returned("payload"))

\* Sender.commit, called by one of the callers: _verify_commit_parameters
\* tests _ip4 and _ip6, which no caller writes, and reads _path
CallerVerifyPath ==
    \E c \in Callers :
        IF verify_path_raises(sender)
        THEN CallerRaises(c, "verify_path", sender,
                          "ValueError: Not all mandatory parameters are set", << >>, << >>)
        ELSE CallerReads(c, "verify_path", "verify_verb", callers.local[c], "_verify_commit_parameters")

\* _verify_commit_parameters reads _verb
CallerVerifyVerb ==
    \E c \in Callers :
        IF verify_verb_raises(sender)
        THEN CallerRaises(c, "verify_verb", sender,
                          "ValueError: Not all mandatory parameters are set", << >>, << >>)
        ELSE CallerReads(c, "verify_verb", "path_none", callers.local[c], "_verify_commit_parameters")

\* _set_url reads path for the test path is None, which is false for every
\* path (an unset path is the empty string)
CallerSetUrlPathNone ==
    \E c \in Callers : CallerReads(c, "path_none", "path_slash", callers.local[c], "_set_url")

\* _set_url reads path for the test path[0] == "/"
CallerSetUrlPathSlash ==
    \E c \in Callers :
        IF sender.path = << >>
        THEN CallerRaises(c, "path_slash", sender, "IndexError", << >>, << >>)
        ELSE CallerReads(c, "path_slash", "path_read",
                         [callers.local[c] EXCEPT !.slash = (sender.path[1] = "/")], "_set_url")

\* _set_url calls _get_host() and reads path again, for the URL
CallerSetUrlPath ==
    \E c \in Callers :
        /\ CallerSteps[callers.pc[c]] = "path_read"
        /\ CallerReads(c, "path_read", "url",
                       [callers.local[c] EXCEPT !.built = set_url_from(sender, callers.local[c].slash)],
                       "_set_url")

\* _set_url assigns _url
CallerSetUrl ==
    \E c \in Callers :
        CallerDoes(c, "url", "payload_none", [sender EXCEPT !.url = callers.local[c].built],
                   callers.local[c], Returned("_set_url"))

\* Sender.commit reads _payload for the test _payload is None, which is false
\* for every payload (the setter stores dicts only and commit() a dict)
CallerPayloadNone ==
    \E c \in Callers : CallerReads(c, "payload_none", "read_verb", callers.local[c], "commit")

\* Sender.commit reads verb, the first argument of requests.request()
CallerReadVerb ==
    \E c \in Callers :
        CallerReads(c, "read_verb", "read_url", [callers.local[c] EXCEPT !.verb = sender.verb], "commit")

\* Sender.commit reads _url, the second argument
CallerReadUrl ==
    \E c \in Callers :
        CallerReads(c, "read_url", "cookie", [callers.local[c] EXCEPT !.url = sender.url], "commit")

\* _get_headers reads _token for the Cookie header
CallerGetHeadersCookie ==
    \E c \in Callers :
        CallerReads(c, "cookie", "authcookie",
                    [callers.local[c] EXCEPT !.cookie = sender.token], "_get_headers")

\* _get_headers reads _token for the AuthCookie header
CallerGetHeadersAuthCookie ==
    \E c \in Callers :
        CallerReads(c, "authcookie", "authorization",
                    [callers.local[c] EXCEPT !.authcookie = sender.token], "_get_headers")

\* _get_headers reads _token for the Authorization header
CallerGetHeadersAuthorization ==
    \E c \in Callers :
        CallerReads(c, "authorization", "request",
                    [callers.local[c] EXCEPT !.authorization = sender.token], "_get_headers")

\* Sender.commit reads payload and _timeout, the last arguments, and calls
\* requests.request(), which raises or takes the request and lets the caller's
\* thread wait for the answer
CallerCallRequests ==
    \E c \in Callers :
        /\ CallerSteps[callers.pc[c]] = "request"
        /\ LET local == callers.local[c]
               req == request_from(local.verb, local.url,
                                   get_headers_from(local.cookie, local.authcookie, local.authorization),
                                   sender.payload, sender.timeout)
           IN  IF requests_request_raises(req) # "None"
               THEN CallerRaises(c, "request", sender, requests_request_raises(req), <<req>>, << >>)
               ELSE CallerDoes(c, "request", "answer", sender, [local EXCEPT !.request = <<req>>],
                               [op |-> "requests.request", raised |-> "None", sent |-> <<req>>, recv |-> << >>])

\* requests.request() returns or raises, and for a response commit() assigns
\* _payload
CallerAnswer ==
    \E c \in Callers, net \in Network :
        /\ CallerSteps[callers.pc[c]] = "answer"
        /\ LET local == callers.local[c]
               o == commit_receive(sender, local.request[1], net)
           IN  IF o.raised # "None"
               THEN CallerRaises(c, "answer", o.obj, o.raised, o.sent, o.recv)
               ELSE CallerDoes(c, "answer", "token", o.obj, [local EXCEPT !.response = <<net.r>>],
                               Called("requests.request", o))

\* _gen_response assigns _token when the response has a Set-Cookie header
CallerSetToken ==
    \E c \in Callers :
        /\ CallerSteps[callers.pc[c]] = "token"
        /\ LET local == callers.local[c]
               o == gen_response_set_token(sender, local.response[1], local.request[1])
           IN  IF o.raised # "None"
               THEN CallerRaises(c, "token", o.obj, o.raised, o.sent, o.recv)
               ELSE CallerDoes(c, "token", "return_code", o.obj, local, Called("_gen_response", o))

\* _gen_response assigns _return_code
CallerSetReturnCode ==
    \E c \in Callers :
        /\ CallerSteps[callers.pc[c]] = "return_code"
        /\ LET local == callers.local[c]
               o == gen_response_set_return_code(sender, local.response[1], local.request[1])
           IN  CallerDoes(c, "return_code", "response", o.obj, local, Called("_gen_response", o))

\* _gen_response assigns response, and commit() returns
CallerSetResponse ==
    \E c \in Callers :
        /\ CallerSteps[callers.pc[c]] = "response"
        /\ LET local == callers.local[c]
               o == gen_response_set_response(sender, local.response[1], local.request[1])
           IN  CallerDoes(c, "response", "done", o.obj, local, Called("commit", o))

(***************************************************************************)
(* RestApiToGui: construction and calls                                    *)
(***************************************************************************)

\* RestApiToGui.__init__
gui_init ==
    [parameter_name |-> << >>, parameter_names |-> << >>,
     param_info |-> [template |-> EmptyDict, parameter_name |-> << >>],
     refreshed |-> FALSE, rest_api_parameter_to_gui_mapping |-> EmptyDict,
     rest_send |-> [params |-> EmptyDict], template |-> EmptyDict, template_name |-> ""]

\* Parameter names, as the atoms the code searches them for
N_ANYCAST_GW_MAC == <<"ANYCAST_GW_MAC">>
N_BGP_AS == <<"BGP_AS">>
N_BGP_AS_PREV == <<"BGP_AS", "_PREV">>
N_DCNM_ID == <<"DCNM_ID">>
N_FABRIC_NAME == <<"FABRIC_NAME">>
N_SITE_ID == <<"SITE_ID">>

\* The names in the order of Python's str comparison
NameOrder == <<N_ANYCAST_GW_MAC, N_BGP_AS, N_BGP_AS_PREV, N_DCNM_ID, N_FABRIC_NAME, N_SITE_ID>>

Rank(name) == CHOOSE i \in DOMAIN NameOrder : NameOrder[i] = name

\* sub in name, for a name that is a sequence of atoms
Contains(name, sub) == \E i \in DOMAIN name : name[i] = sub

\* x inserted into the sorted list s, after the elements that are not greater
RECURSIVE insort(_, _)
insort(s, x) ==
    IF s = << >> THEN <<x>>
    ELSE IF Rank(x) < Rank(Head(s)) THEN <<x>> \o s
    ELSE <<Head(s)>> \o insort(Tail(s), x)

\* sorted(list)
RECURSIVE sorted(_)
sorted(s) == IF s = << >> THEN << >> ELSE insort(sorted(SubSeq(s, 1, Len(s) - 1)), s[Len(s)])

\* A parameter of a template, as ParamInfo reports it
Parameter(name, internal, section, display_name, description) ==
    [name |-> name, internal |-> internal, section |-> section,
     display_name |-> display_name, description |-> description]

\* The parameters a template is made of: one that is shown, one that is shown
\* and has no description, and one for each reason to skip a parameter
ParameterSet ==
    {Parameter(N_FABRIC_NAME, FALSE, "General", "Fabric Name", "Name of the fabric"),
     Parameter(N_BGP_AS, FALSE, "General", "BGP ASN", ""),
     Parameter(N_BGP_AS_PREV, FALSE, "General", "", ""),
     Parameter(N_DCNM_ID, FALSE, "", "", ""),
     Parameter(N_ANYCAST_GW_MAC, FALSE, "Hidden", "Anycast Gateway MAC", ""),
     Parameter(N_SITE_ID, TRUE, "General", "Site Id", "")}

\* The number of parameters of a template
MaxParameters == 2

SeqsUpTo(S, n) == UNION {[1..k -> S] : k \in 0..n}

\* The templates the controller returns: a document without parameters, and
\* the documents with up to MaxParameters parameters
Templates == {EmptyDict} \cup {"parameters" :> ps : ps \in SeqsUpTo(ParameterSet, MaxParameters)}

\* TemplateGet.refresh(): it retrieves the template, or raises ControllerResponseError
TemplateOutcomes ==
    {[kind |-> "ControllerResponseError"]} \cup {[kind |-> "Template", template |-> t] : t \in Templates}

\* template.get("parameters", [])
parameters(template) == IF Has(template, "parameters") THEN template["parameters"] ELSE << >>

\* ParamInfo: what it reports for the parameter name of template (the defaults
\* when the template has no such parameter, raise_on_missing being False)
param_info_of(template, name) ==
    LET ps == parameters(template)
        found == {i \in DOMAIN ps : ps[i].name = name}
    IN  IF found = {} THEN Parameter(name, FALSE, "", "", "")
        ELSE ps[CHOOSE i \in found : \A j \in found : i <= j]

\* The result of a RestApiToGui call: the object as the call leaves it, the
\* exception raised ("None" when the call returned), the value returned and
\* the number of TemplateGet.refresh() calls it made
GuiOut(obj, raised, value, refreshes) ==
    [obj |-> obj, raised |-> raised, value |-> value, refreshes |-> refreshes]

\* RestApiToGui._get_template
get_template(g, outcome) ==
    IF outcome.kind = "ControllerResponseError"
    THEN GuiOut(g, "ValueError: Failed to retrieve template", "None", 1)
    ELSE GuiOut([g EXCEPT !.template = outcome.template], "None", "None", 1)

\* RestApiToGui._parse_parameter_info
parse_parameter_info(g) == [g EXCEPT !.param_info.template = g.template]

\* RestApiToGui._set_parameter_names
set_parameter_names(g) ==
    [g EXCEPT !.parameter_names = [i \in DOMAIN parameters(g.template) |-> parameters(g.template)[i].name]]

\* Mutant: a parameter whose name contains "_PREV" is kept
skip_keeps_prev(g, param_name) ==
    LET info == param_info_of(g.param_info.template, g.param_info.parameter_name)
    IN  \/ info.internal
        \/ info.section = "Hidden"
        \/ Contains(param_name, "DCNM_ID")

\* RestApiToGui._skip
skip(g, param_name) ==
    LET info == param_info_of(g.param_info.template, g.param_info.parameter_name)
    IN  \/ info.internal
        \/ info.section = "Hidden"
        \/ Contains(param_name, "_PREV")
        \/ Contains(param_name, "DCNM_ID")

\* RestApiToGui._build_mapping: the entry of a parameter, the keys whose value
\* is empty being left out
mapping_entry(info) ==
    (IF info.description # "" THEN "description" :> info.description ELSE EmptyDict)
    @@ (IF info.display_name # "" THEN "display_name" :> info.display_name ELSE EmptyDict)
    @@ (IF info.section # "" THEN "section" :> info.section ELSE EmptyDict)

\* RestApiToGui._build_mapping: the loop, from the i-th parameter name on
RECURSIVE build_mapping_from(_, _)
build_mapping_from(g, i) ==
    IF i > Len(g.parameter_names) THEN g
    ELSE LET param_name == g.parameter_names[i]
             g1 == [g EXCEPT !.param_info.parameter_name = param_name]
             info == param_info_of(g1.param_info.template, param_name)
             m == g1.rest_api_parameter_to_gui_mapping
             old == IF param_name \in DOMAIN m THEN m[param_name] ELSE EmptyDict
         IN  IF skip(g1, param_name)
             THEN build_mapping_from(g1, i + 1)
             ELSE build_mapping_from(
                    [g1 EXCEPT !.rest_api_parameter_to_gui_mapping =
                        (param_name :> (mapping_entry(info) @@ old)) @@ m],
                    i + 1)

\* RestApiToGui._build_mapping
build_mapping(g) == build_mapping_from([g EXCEPT !.rest_api_parameter_to_gui_mapping = EmptyDict], 1)

\* list(mapping.keys()): the keys in the order of their insertion, which is the
\* order of their first occurrence in names
RECURSIVE keys(_, _)
keys(names, m) ==
    IF names = << >> THEN << >>
    ELSE LET rest == keys(SubSeq(names, 1, Len(names) - 1), m)
             n == names[Len(names)]
         IN  IF n \in DOMAIN m /\ ~\E i \in DOMAIN rest : rest[i] = n
             THEN Append(rest, n) ELSE rest

\* Mutant: commit marks the instance as refreshed before it retrieves the template
gui_commit_refreshed_first(g, outcome) ==
    IF g.template_name = ""
    THEN GuiOut(g, "ValueError: template_name must be set.", "None", 0)
    ELSE IF g.rest_send.params = EmptyDict
    THEN GuiOut(g, "ValueError: rest_send must be set to an instance of RestSend with params set.", "None", 0)
    ELSE LET o == get_template([g EXCEPT !.refreshed = TRUE], outcome)
         IN  IF o.raised # "None" THEN o
             ELSE LET g1 == build_mapping(set_parameter_names(parse_parameter_info(o.obj)))
                  IN  GuiOut([g1 EXCEPT !.parameter_names =
                                    keys(g1.parameter_names, g1.rest_api_parameter_to_gui_mapping)],
                             "None", "None", o.refreshes)

\* Mutant: commit clears the mapping before it retrieves the template
gui_commit_clears_first(g, outcome) ==
    IF g.template_name = ""
    THEN GuiOut(g, "ValueError: template_name must be set.", "None", 0)
    ELSE IF g.rest_send.params = EmptyDict
    THEN GuiOut(g, "ValueError: rest_send must be set to an instance of RestSend with params set.", "None", 0)
    ELSE LET o == get_template([g EXCEPT !.rest_api_parameter_to_gui_mapping = EmptyDict,
                                         !.parameter_names = << >>], outcome)
         IN  IF o.raised # "None" THEN o
             ELSE LET g1 == build_mapping(set_parameter_names(parse_parameter_info(o.obj)))
                  IN  GuiOut([g1 EXCEPT !.parameter_names =
                                    keys(g1.parameter_names, g1.rest_api_parameter_to_gui_mapping),
                                        !.refreshed = TRUE],
                             "None", "None", o.refreshes)

\* RestApiToGui.commit, outcome being what TemplateGet.refresh() does
gui_commit(g, outcome) ==
    IF g.template_name = ""
    THEN GuiOut(g, "ValueError: template_name must be set.", "None", 0)
    ELSE IF g.rest_send.params = EmptyDict
    THEN GuiOut(g, "ValueError: rest_send must be set to an instance of RestSend with params set.", "None", 0)
    ELSE LET o == get_template(g, outcome)
         IN  IF o.raised # "None" THEN o
             ELSE LET g1 == build_mapping(set_parameter_names(parse_parameter_info(o.obj)))
                  IN  GuiOut([g1 EXCEPT !.parameter_names =
                                    keys(g1.parameter_names, g1.rest_api_parameter_to_gui_mapping),
                                        !.refreshed = TRUE],
                             "None", "None", o.refreshes)

\* RestApiToGui.parameter_names
parameter_names(g) ==
    IF ~g.refreshed
    THEN GuiOut(g, "ValueError: Call RestApiToGui.commit before accessing parameter_names.", "None", 0)
    ELSE GuiOut(g, "None", sorted(g.parameter_names), 0)

\* RestApiToGui.parameter_section, parameter_display_name and
\* parameter_description: mapping.get(parameter_name, {}).get(key) or ""
parameter_getter(g, key) ==
    IF ~g.refreshed
    THEN GuiOut(g, "ValueError: Call RestApiToGui.commit before accessing", "None", 0)
    ELSE IF g.parameter_name = << >>
    THEN GuiOut(g, "ValueError: parameter_name must be set before accessing", "None", 0)
    ELSE LET m == g.rest_api_parameter_to_gui_mapping
             entry == IF g.parameter_name \in DOMAIN m THEN m[g.parameter_name] ELSE EmptyDict
         IN  GuiOut(g, "None", IF key \in DOMAIN entry THEN entry[key] ELSE "", 0)

GuiTemplateNames == {"", "Easy_Fabric", "MSD_Fabric"}

\* RestSend({}) and a RestSend with params
GuiRestSends == {[params |-> EmptyDict], [params |-> ("check_mode" :> FALSE)]}

GuiParameterNames == {<< >>, N_FABRIC_NAME, N_BGP_AS_PREV}

GuiCalled(op, o) ==
    /\ gui' = o.obj
    /\ gui_call' = [op |-> op, raised |-> o.raised, value |-> o.value, refreshes |-> o.refreshes]
    /\ UNCHANGED <<handler, handler_call, sender, call, calls, callers>>

\* RestApiToGui.template_name setter
GuiSetTemplateName ==
    \E v \in GuiTemplateNames :
        GuiCalled("template_name", GuiOut([gui EXCEPT !.template_name = v], "None", "None", 0))

\* RestApiToGui.rest_send setter
GuiSetRestSend ==
    \E v \in GuiRestSends :
        GuiCalled("rest_send",
                  IF v.params = EmptyDict
                  THEN GuiOut(gui, "ValueError: rest_send must be set to an instance of RestSend with params set.", "None", 0)
                  ELSE GuiOut([gui EXCEPT !.rest_send = v], "None", "None", 0))

\* RestApiToGui.parameter_name setter
GuiSetParameterName ==
    \E v \in GuiParameterNames :
        GuiCalled("parameter_name", GuiOut([gui EXCEPT !.parameter_name = v], "None", "None", 0))

GuiCommit == \E outcome \in TemplateOutcomes : GuiCalled("commit", gui_commit(gui, outcome))

GuiGetParameterNames == GuiCalled("parameter_names", parameter_names(gui))
GuiGetParameterSection == GuiCalled("parameter_section", parameter_getter(gui, "section"))
GuiGetParameterDisplayName == GuiCalled("parameter_display_name", parameter_getter(gui, "display_name"))
GuiGetParameterDescription == GuiCalled("parameter_description", parameter_getter(gui, "description"))

(***************************************************************************)
(* Specifications                                                          *)
(***************************************************************************)

Init ==
    /\ \E env \in Environments : sender = sender_init(env)
    /\ call = Returned("__init__")
    /\ calls = 0
    /\ handler = handler_init
    /\ handler_call = [op |-> "__init__", raised |-> "None"]
    /\ callers = callers_init(TRUE)
    /\ gui = gui_init
    /\ gui_call = [op |-> "__init__", raised |-> "None", value |-> "None", refreshes |-> 0]

\* The environment with none of the ND_ variables set
DefaultEnvironment == [domain |-> "local", ip4 |-> "", ip6 |-> "", password |-> "", username |-> "admin"]

InitHandler ==
    /\ sender = sender_init(DefaultEnvironment)
    /\ call = Returned("__init__")
    /\ calls = 0
    /\ handler = handler_init
    /\ handler_call = [op |-> "__init__", raised |-> "None"]
    /\ callers = callers_init(TRUE)
    /\ gui = gui_init
    /\ gui_call = [op |-> "__init__", raised |-> "None", value |-> "None", refreshes |-> 0]

SenderNext ==
    \/ SetIp4 \/ SetIp6 \/ SetUsername \/ SetPassword \/ SetDomain
    \/ SetPath \/ SetVerb \/ SetPayload \/ SetTimeout
    \/ SetHeaders \/ SetRbac \/ SenderSetResponse
    \/ Commit \/ Login \/ RefreshLogin

HandlerNext ==
    \/ HandlerSetVerb \/ HandlerSetResponse \/ HandlerSetSenderResponse \/ HandlerCommit

\* The calls on a Sender
Spec == Init /\ [][SenderNext]_vars

\* The calls on a ResponseHandler
SpecHandler == InitHandler /\ [][HandlerNext]_vars

\* The environment of a configured controller
ConfiguredEnvironment ==
    [domain |-> "local", ip4 |-> "10.1.1.1", ip6 |-> "", password |-> "secret", username |-> "admin"]

InitHistory ==
    /\ \E env \in {DefaultEnvironment, ConfiguredEnvironment} : sender = sender_init(env)
    /\ call = Returned("__init__")
    /\ calls = 0
    /\ handler = handler_init
    /\ handler_call = [op |-> "__init__", raised |-> "None"]
    /\ callers = callers_init(TRUE)
    /\ gui = gui_init
    /\ gui_call = [op |-> "__init__", raised |-> "None", value |-> "None", refreshes |-> 0]

HistoryNext == Login \/ RefreshLogin \/ Commit \/ UpdateStatus

\* The calls of _update_status() on a Sender, with and without requests sent
\* before them: the first MaxCalls calls are login(), refresh_login(), commit()
\* or _update_status(), the later ones _update_status()
SpecHistory == InitHistory /\ [][HistoryNext]_vars

\* The environment of the callers: the controller's address is set
CallersEnvironment == [DefaultEnvironment EXCEPT !.ip4 = "10.1.1.1"]

InitCallers ==
    /\ sender = sender_init(CallersEnvironment)
    /\ call = Returned("__init__")
    /\ calls = 0
    /\ handler = handler_init
    /\ handler_call = [op |-> "__init__", raised |-> "None"]
    /\ \E serialized \in BOOLEAN : callers = callers_init(serialized)
    /\ gui = gui_init
    /\ gui_call = [op |-> "__init__", raised |-> "None", value |-> "None", refreshes |-> 0]

CallersNext ==
    \/ CallerSetPath \/ CallerSetVerb \/ CallerSetPayload
    \/ CallerVerifyPath \/ CallerVerifyVerb
    \/ CallerSetUrlPathNone \/ CallerSetUrlPathSlash \/ CallerSetUrlPath \/ CallerSetUrl
    \/ CallerPayloadNone \/ CallerReadVerb \/ CallerReadUrl
    \/ CallerGetHeadersCookie \/ CallerGetHeadersAuthCookie \/ CallerGetHeadersAuthorization
    \/ CallerCallRequests \/ CallerAnswer
    \/ CallerSetToken \/ CallerSetReturnCode \/ CallerSetResponse

\* Two callers configuring and committing one request each on one Sender,
\* with and without serializing their sequences
SpecCallers == InitCallers /\ [][CallersNext]_vars

GuiNext ==
    \/ GuiSetTemplateName \/ GuiSetRestSend \/ GuiSetParameterName \/ GuiCommit
    \/ GuiGetParameterNames \/ GuiGetParameterSection
    \/ GuiGetParameterDisplayName \/ GuiGetParameterDescription

\* The calls on a RestApiToGui
SpecGui == InitHandler /\ [][GuiNext]_vars

(***************************************************************************)
(* ResponseHandler: properties, checked under SpecHandler                  *)
(***************************************************************************)

\* ResponseHandler.commit() was the last call, on a GET
CommittedGet == handler_call.op = "commit" /\ handler.verb = "GET"

\* ResponseHandler.commit() was the last call, on a POST, PUT or DELETE
CommittedMutating == handler_call.op = "commit" /\ handler.verb \in {"POST", "PUT", "DELETE"}

NotFound404(resp) ==
    /\ Has(resp, "RETURN_CODE") /\ resp["RETURN_CODE"] = 404
    /\ Has(resp, "MESSAGE") /\ resp["MESSAGE"] = "Not Found"

\* The response is a dict built by Sender._gen_response
FromSender(resp) == Has(resp, "REQUEST_PATH") /\ Has(resp, "METHOD") /\ Has(resp, "DATA")

Failed == ("success" :> FALSE) @@ ("changed" :> FALSE)
Changed == ("success" :> TRUE) @@ ("changed" :> TRUE)

\* C1: a GET response with RETURN_CODE 404 and MESSAGE "Not Found" is
\* classified found = false, success = true by commit(), also when the response
\* is the dict Sender built for the request.
C1_NotFoundIsSuccess ==
    CommittedGet /\ NotFound404(handler.response)
        => /\ handler_call.raised = "None"
           /\ handler.result = ("found" :> FALSE) @@ ("success" :> TRUE)

C1_Witness ==
    /\ CommittedGet
    /\ NotFound404(handler.response)
    /\ FromSender(handler.response)
    /\ handler.result = ("found" :> FALSE) @@ ("success" :> TRUE)

\* C2: a GET response other than 404 / "Not Found" is classified found = false,
\* success = false when its status is outside {200, 404} or its message is not
\* "OK", and found = true, success = true otherwise.
C2_GetClassification ==
    CommittedGet /\ handler.response # EmptyDict /\ ~NotFound404(handler.response)
        => /\ handler_call.raised = "None"
           /\ handler.result =
                IF \/ handler.response["RETURN_CODE"] \notin {200, 404}
                   \/ handler.response["MESSAGE"] # "OK"
                THEN ("found" :> FALSE) @@ ("success" :> FALSE)
                ELSE ("found" :> TRUE) @@ ("success" :> TRUE)

C2_Witness ==
    /\ CommittedGet
    /\ handler.response # EmptyDict
    /\ handler.response["RETURN_CODE"] = 404
    /\ handler.response["MESSAGE"] = "OK"
    /\ handler.result = ("found" :> TRUE) @@ ("success" :> TRUE)

\* C3: a POST, PUT or DELETE response with a non-empty error field is
\* classified success = false, changed = false, whatever its status and message.
C3_ErrorFieldFails ==
    (/\ CommittedMutating
     /\ Has(handler.response, "ERROR")
     /\ handler.response["ERROR"] # "")
        => handler_call.raised = "None" /\ handler.result = Failed

C3_Witness ==
    /\ CommittedMutating
    /\ Has(handler.response, "ERROR")
    /\ handler.response["ERROR"] = "invalid payload"
    /\ handler.response["RETURN_CODE"] = 200
    /\ handler.response["MESSAGE"] = "OK"
    /\ handler.result = Failed

\* C4: a POST, PUT or DELETE response with message "OK" and no error field is
\* classified success = true, changed = true.
C4_OkWithoutErrorChanges ==
    (/\ CommittedMutating
     /\ handler.response # EmptyDict
     /\ handler.response["MESSAGE"] = "OK"
     /\ ~Has(handler.response, "ERROR"))
        => handler_call.raised = "None" /\ handler.result = Changed

C4_Witness ==
    /\ CommittedMutating
    /\ handler.response # EmptyDict
    /\ handler.response["MESSAGE"] = "OK"
    /\ handler.response["RETURN_CODE"] = 500
    /\ ~Has(handler.response, "ERROR")
    /\ handler.result = Changed

\* C5, as claimed: a POST, PUT or DELETE response is classified success = false,
\* changed = false exactly when it carries a non-empty error field or a message
\* other than "OK", and success = true, changed = true in every other case.
C5_Original ==
    CommittedMutating /\ handler.response # EmptyDict
        => handler.result =
                IF \/ (Has(handler.response, "ERROR") /\ handler.response["ERROR"] # "")
                   \/ (Has(handler.response, "MESSAGE") /\ handler.response["MESSAGE"] # "OK")
                THEN Failed
                ELSE Changed

\* C5, amended: a POST, PUT or DELETE response is classified success = false,
\* changed = false exactly when it carries an error field, empty or not, or a
\* message other than "OK", and success = true, changed = true in every other
\* case.
C5_MutatingClassification ==
    CommittedMutating /\ handler.response # EmptyDict
        => /\ handler_call.raised = "None"
           /\ handler.result =
                IF \/ Has(handler.response, "ERROR")
                   \/ (Has(handler.response, "MESSAGE") /\ handler.response["MESSAGE"] # "OK")
                THEN Failed
                ELSE Changed

C5_Witness ==
    /\ CommittedMutating
    /\ Has(handler.response, "ERROR")
    /\ handler.response["ERROR"] = ""
    /\ handler.response["MESSAGE"] = "OK"
    /\ handler.result = Failed

\* C6: a PUT answered with status 200 and a body containing
\* {"ERROR": "invalid payload"}, passed through Sender._gen_response and then
\* classified, gives success = false, changed = false.
C6_EmbeddedErrorFails ==
    (/\ handler_call.op = "commit"
     /\ handler.verb = "PUT"
     /\ FromSender(handler.response)
     /\ handler.response["METHOD"] = "PUT"
     /\ handler.response["RETURN_CODE"] = 200
     /\ Has(handler.response["DATA"], "ERROR"))
        => handler.result = Failed

\* C7: commit() raises when verb or response was never set, and then result is
\* what it was: empty, since no commit can have succeeded before.
C7_CommitNeedsVerbAndResponse ==
    handler.verb = "" \/ handler.response = EmptyDict
        => /\ handler.result = EmptyDict
           /\ (handler_call.op = "commit" => handler_call.raised = "ValueError")

C7_Witness ==
    /\ handler_call.op = "commit"
    /\ handler_call.raised = "ValueError"
    /\ handler.verb # ""
    /\ handler.response = EmptyDict
    /\ handler.result = EmptyDict

(***************************************************************************)
(* Sender: properties, checked under Spec                                  *)
(***************************************************************************)

\* The request carries the token tok in its Authorization and Cookie headers
Attaches(req, tok) ==
    /\ req.headers["Authorization"] = tok
    /\ req.headers["Cookie"] = <<"AuthCookie", "=">> \o tok

\* The body of the response r is JSON with a jwttoken key
BodyHasToken(r) == json_valid(r.text) /\ ~json_null(r.text) /\ Has(json_loads(r.text), "jwttoken")

\* C8: commit() raises its configuration error when ip4 and ip6 are both empty,
\* or path or verb is unset, and then hands no request to requests.request().
\* (commit() writes none of ip4, ip6, path and verb, so the state after the call
\* shows what they were when it was made.)
C8_CommitNeedsHostPathVerb ==
    (/\ call.op = "commit"
     /\ \/ (sender.ip4 = "" /\ sender.ip6 = "")
        \/ sender.path = << >>
        \/ sender.verb = "")
        => /\ call.raised = "ValueError: Not all mandatory parameters are set"
           /\ call.sent = << >>
           /\ call.recv = << >>

C8_Witness ==
    /\ call.op = "commit"
    /\ call.raised = "ValueError: Not all mandatory parameters are set"
    /\ call.sent = << >>
    /\ sender.ip4 # ""
    /\ sender.path # << >>
    /\ sender.verb = ""

\* C9: login() on a logged-in session returns without a request and changes
\* nothing, and the login() that logged the session in made exactly one
\* request: two calls in succession make one round trip.
C9_LoginIdempotent ==
    [][call'.op = "login"
        => IF sender.logged_in
           THEN call'.raised = "None" /\ call'.sent = << >> /\ call'.recv = << >> /\ sender' = sender
           ELSE sender'.logged_in => Len(call'.sent) = 1 /\ Len(call'.recv) = 1]_vars

C9_Witness ==
    /\ call.op = "login"
    /\ call.raised = "None"
    /\ call.sent = << >>
    /\ sender.logged_in
    /\ sender.token = <<"T1">>

\* C10, as claimed, for the login and the requests that follow it: a login()
\* on a session that is not logged in, answered with a response that has a
\* Set-Cookie header and a body that carries token T, leaves the session logged
\* in with token T, and every request handed to requests.request() carries the
\* session's token in its Authorization and Cookie headers.
C10_LoginTokenAttached ==
    [][/\ (/\ call'.op = "login"
           /\ ~sender.logged_in
           /\ Len(call'.recv) = 1
           /\ Has(call'.recv[1].headers, "Set-Cookie")
           /\ BodyHasToken(call'.recv[1]))
            => /\ sender'.logged_in
               /\ sender'.token = json_loads(call'.recv[1].text)["jwttoken"]
       /\ \A i \in 1..Len(call'.sent) : Attaches(call'.sent[i], sender.token)]_vars

(***************************************************************************)
(* Sender: the history, checked under Spec and SpecHistory                 *)
(***************************************************************************)

\* commit(), login() or refresh_login() was the last call and it received a
\* response
ReceivedResponse == call.op \in {"commit", "login", "refresh_login"} /\ Len(call.recv) = 1

\* C11, as claimed: after a call that received a response, last_rc is the
\* status code of the response, last_url is the URL of the request, and the
\* status code and the URL are the first elements of history_rc and
\* history_path.
C11_StatusRecorded ==
    ReceivedResponse
        => /\ sender.last_rc = call.recv[1].status_code
           /\ sender.last_url = call.sent[1].url
           /\ Len(sender.history_rc) >= 1
           /\ Len(sender.history_path) >= 1
           /\ sender.history_rc[1] = call.recv[1].status_code
           /\ sender.history_path[1] = call.sent[1].url

\* C12: history_rc and history_path have the same length, at most 50, and
\* after every _update_status() each holds the entry the call added, the
\* Sender's return code and URL, followed by the entries it held before, in
\* their order, without the last of them when there were 50: the entry a full
\* history drops is its oldest.
C12_HistoryBounded ==
    /\ Len(sender.history_rc) = Len(sender.history_path)
    /\ Len(sender.history_rc) <= HistoryMaxlen
    /\ call.op = "_update_status" =>
         LET before == call.value
             kept == IF Len(before.history_rc) < HistoryMaxlen
                     THEN Len(before.history_rc) ELSE HistoryMaxlen - 1
         IN  /\ sender.history_rc = <<sender.return_code>> \o SubSeq(before.history_rc, 1, kept)
             /\ sender.history_path = <<sender.url>> \o SubSeq(before.history_path, 1, kept)

\* _update_status() was called on a full history whose oldest entry was the
\* one of a Sender that had sent nothing, and whose other entries were those
\* of an answered login: the history has lost that oldest entry
C12_Witness ==
    /\ call.op = "_update_status"
    /\ Len(call.value.history_rc) = HistoryMaxlen
    /\ call.value.history_rc[HistoryMaxlen] = -1
    /\ call.value.history_path[HistoryMaxlen] = << >>
    /\ call.value.history_rc[HistoryMaxlen - 1] = 200
    /\ Len(sender.history_rc) = HistoryMaxlen
    /\ sender.history_rc[HistoryMaxlen] = 200
    /\ sender.history_path[HistoryMaxlen] = <<"https://", "10.1.1.1", "/", "login">>
    /\ sender.history_rc[1] = 200

(***************************************************************************)
(* Sender: token and logged_in, checked under Spec                         *)
(***************************************************************************)

\* C13, as claimed: in every state between calls, the state a failed call
\* leaves included, either the token is empty and the session is not logged
\* in, or the session is logged in and the token is not empty.
C13_TokenIffLoggedIn ==
    \/ (sender.token = << >> /\ ~sender.logged_in)
    \/ (sender.logged_in /\ sender.token # << >>)

\* C14: a new session is not logged in; logged_in becomes true only in a
\* login() that returns after one round trip whose response body carried a
\* token, which is then the session's token; no other call sets it; and once
\* true it is never set back to false.
C14_LoggedInOnlyByLogin ==
    /\ ~sender.logged_in
    /\ [][/\ sender.logged_in => sender'.logged_in
          /\ (~sender.logged_in /\ sender'.logged_in)
               => /\ call'.op = "login"
                  /\ call'.raised = "None"
                  /\ Len(call'.sent) = 1
                  /\ Len(call'.recv) = 1
                  /\ BodyHasToken(call'.recv[1])
                  /\ sender'.token = json_loads(call'.recv[1].text)["jwttoken"]]_vars

C14_Witness ==
    /\ call.op = "refresh_login"
    /\ call.raised = "None"
    /\ Len(call.recv) = 1
    /\ sender.logged_in
    /\ sender.jwttoken = <<"T1">>

\* The ValueErrors login() raises for missing credentials
LoginConfigurationErrors ==
    {"ValueError: call Sender.username before calling Sender.login()",
     "ValueError: call Sender.password before calling Sender.login()",
     "ValueError: call Sender.domain before calling Sender.login()"}

\* C15: login() on a session that is not logged in and has username, password
\* or domain unset raises its configuration error, hands no request to
\* requests.request(), and leaves the session as it was: not logged in, with
\* the same token.
C15_LoginNeedsCredentials ==
    [][(/\ call'.op = "login"
        /\ ~sender.logged_in
        /\ (sender.username = "" \/ sender.password = "" \/ sender.domain = ""))
        => /\ call'.raised \in LoginConfigurationErrors
           /\ call'.sent = << >>
           /\ call'.recv = << >>
           /\ ~sender'.logged_in
           /\ sender'.token = sender.token
           /\ sender' = sender]_vars

C15_Witness ==
    /\ call.op = "login"
    /\ call.raised = "ValueError: call Sender.domain before calling Sender.login()"
    /\ call.sent = << >>
    /\ sender.domain = ""
    /\ sender.username # ""
    /\ sender.password # ""
    /\ sender.ip4 # ""
    /\ ~sender.logged_in
    /\ sender.token = <<"C1">>

\* C16, as claimed: a login() or refresh_login() whose round trip completed on
\* a response whose body has no jwttoken key (a body that is not JSON included)
\* raises the authentication error of _update_token, and after such a login()
\* the session is not logged in. (Stated for the responses whose Set-Cookie
\* header, if any, is well formed.)
C16_MissingTokenIsAuthenticationError ==
    (/\ call.op \in {"login", "refresh_login"}
     /\ Len(call.recv) = 1
     /\ ~gen_response_raises(call.recv[1])
     /\ ~BodyHasToken(call.recv[1]))
        => /\ call.raised = "ValueError: Unable to parse token from response"
           /\ call.op = "login" => ~sender.logged_in

\* C17, as claimed: a login() whose response has a status outside 200..299
\* raises an error and leaves the session not logged in, whatever the body.
C17_Non2xxLoginFails ==
    (/\ call.op = "login"
     /\ Len(call.recv) = 1
     /\ call.recv[1].status_code \notin 200..299)
        => /\ call.raised # "None"
           /\ ~sender.logged_in

\* C18, as claimed: a commit(), login() or refresh_login() that raises leaves
\* token and logged_in as they were before the call.
C18_FailedCallKeepsToken ==
    [][(call'.op \in {"commit", "login", "refresh_login"} /\ call'.raised # "None")
        => /\ sender'.token = sender.token
           /\ sender'.logged_in = sender.logged_in]_vars

\* C19, as claimed: after every commit(), login() or refresh_login() whose
\* request was sent (requests.request() took it and did not refuse its URL or
\* its timeout), a call that ended in a transport error included, the stored
\* payload is empty.
C19_PayloadCleared ==
    (call.op \in {"commit", "login", "refresh_login"} /\ Len(call.sent) >= 1
        /\ call.raised \notin RequestRefused)
        => sender.payload = EmptyDict

\* C20, as claimed: refresh_login() on a session whose host, username,
\* password and domain are set makes exactly one round trip, whatever the
\* state of the session. (refresh_login() writes none of the five fields, so
\* the state after the call shows what they were when it was made.)
C20_RefreshMakesOneRoundTrip ==
    (/\ call.op = "refresh_login"
     /\ (sender.ip4 # "" \/ sender.ip6 # "")
     /\ sender.username # ""
     /\ sender.password # ""
     /\ sender.domain # "")
        => Len(call.sent) = 1

(***************************************************************************)
(* Sender: refresh_login and commit, checked under Spec                    *)
(***************************************************************************)

\* C21, as claimed: every request refresh_login() hands to requests.request()
\* is a POST to the path /refresh of the host, with the body {userName,
\* userPasswd, domain}, whatever verb and path the session had before.
C21_RefreshIsPostRefresh ==
    call.op = "refresh_login"
        => \A i \in 1..Len(call.sent) :
             /\ call.sent[i].verb = "POST"
             /\ call.sent[i].url = <<"https://", get_host(sender), "/", "refresh">>
             /\ call.sent[i].data = [json_dumps |-> login_payload(sender)]

\* C22: a refresh_login() that returns on a logged-in session leaves it logged
\* in, made one round trip whose response body carries a token, and leaves
\* that token as the session's token; and every request is sent with the
\* token the session has when the call is made, so the next request carries
\* the new token.
C22_RefreshReplacesToken ==
    [][/\ (call'.op = "refresh_login" /\ call'.raised = "None" /\ sender.logged_in)
            => /\ sender'.logged_in
               /\ Len(call'.recv) = 1
               /\ BodyHasToken(call'.recv[1])
               /\ sender'.token = json_loads(call'.recv[1].text)["jwttoken"]
       /\ \A i \in 1..Len(call'.sent) :
            /\ call'.sent[i].headers["Authorization"] = sender.token
            /\ call'.sent[i].headers["Cookie"] = <<"AuthCookie", "=">> \o sender.token]_vars

C22_Witness ==
    /\ call.op = "refresh_login"
    /\ call.raised = "None"
    /\ sender.logged_in
    /\ Len(call.sent) = 1
    /\ call.sent[1].headers["Authorization"] = <<"T1">>
    /\ sender.token = <<"T2">>

\* commit() is called on a session that is not logged in and has a host, a
\* path and a verb
UnauthenticatedSend ==
    /\ call'.op = "commit"
    /\ ~sender.logged_in
    /\ (sender.ip4 # "" \/ sender.ip6 # "")
    /\ sender.path # << >>
    /\ sender.verb # ""

\* The dict of the status, reason and body of the response r to the request req
RawResponse(r, req, resp) ==
    /\ resp["RETURN_CODE"] = r.status_code
    /\ resp["MESSAGE"] = r.reason
    /\ resp["METHOD"] = req.verb
    /\ resp["REQUEST_PATH"] = req.url
    /\ json_valid(r.text) /\ ~json_null(r.text) => resp["DATA"] = json_loads(r.text)
    /\ ~json_valid(r.text) => resp["DATA"] = ("INVALID_JSON" :> r.text)

\* C23, as claimed: commit() on a session that is not logged in, holds no
\* token and has a host, a path and a verb does not raise by itself: it sends
\* one request, with an empty token, and when a response arrives it returns
\* with the response stored, whatever the status. (A request that ends without
\* a response raises; C26 is about that.)
C23_UnauthenticatedSend ==
    [][(UnauthenticatedSend /\ sender.token = << >>)
        => /\ Len(call'.sent) = 1
           /\ call'.raised \notin RequestRefused
           /\ Attaches(call'.sent[1], << >>)
           /\ Len(call'.recv) = 1
                => /\ call'.raised = "None"
                   /\ RawResponse(call'.recv[1], call'.sent[1], sender'.response)]_vars


\* C24, as claimed: a commit() that receives a response carrying a session
\* cookie with value T returns with T as the session's token, and a commit()
\* that receives a response without a Set-Cookie header leaves the token as it
\* was.
C24_CookieRenewsToken ==
    [][(call'.op = "commit" /\ Len(call'.recv) = 1)
        => /\ \A T \in CookieValues :
                (/\ Has(call'.recv[1].headers, "Set-Cookie")
                 /\ call'.recv[1].headers["Set-Cookie"] = SessionCookie(T))
                    => call'.raised = "None" /\ sender'.token = T
           /\ ~Has(call'.recv[1].headers, "Set-Cookie")
                => call'.raised = "None" /\ sender'.token = sender.token]_vars

\* C25: every commit(), login() and refresh_login() hands at most one request
\* to requests.request() and receives at most one response, also when the
\* request ends in a transport error or in a response whose status is outside
\* 200..299.
C25_NoRetry ==
    call.op \in {"commit", "login", "refresh_login"}
        => /\ Len(call.sent) <= 1
           /\ Len(call.recv) <= Len(call.sent)

C25_Witness ==
    /\ call.op = "login"
    /\ call.raised = "ValueError: Error connecting to the controller"
    /\ Len(call.sent) = 1
    /\ call.recv = << >>

\* C26, as claimed: every commit() whose request was sent and ends in a
\* transport failure (no response arrives) raises the ValueError commit()
\* raises for a connection failure.
C26_TransportErrorsTyped ==
    (call.op = "commit" /\ Len(call.sent) = 1 /\ call.recv = << >>
        /\ call.raised \notin RequestRefused)
        => call.raised = "ValueError: Error connecting to the controller"

(***************************************************************************)
(* Sender: setters, checked under Spec                                     *)
(***************************************************************************)

\* C27, as claimed: setting timeout to a value that is not an integer, or to an
\* integer that is zero or negative, raises and leaves the stored timeout as it
\* was.
C27_Original ==
    [][(/\ call'.op = "timeout"
        /\ \/ call'.value.type # "int"
           \/ (call'.value.type = "int" /\ call'.value.value <= 0))
        => /\ call'.raised # "None"
           /\ sender'.timeout = sender.timeout]_vars

\* C27, amended: setting timeout to a value that is not an int raises TypeError
\* and leaves the session as it was; setting it to an int, zero and negative
\* included, returns and stores the value.
C27_TimeoutTypeChecked ==
    [][call'.op = "timeout"
        => IF call'.value.type # "int"
           THEN call'.raised = "TypeError" /\ sender' = sender
           ELSE /\ call'.raised = "None"
                /\ sender' = [sender EXCEPT !.timeout = call'.value.value]]_vars

C27_Witness ==
    /\ call.op = "timeout"
    /\ call.raised = "None"
    /\ call.value = PyInt(0)
    /\ sender.timeout = 0

\* The host of a URL built by _set_url
HostOf(url) == url[2]

\* C28, as claimed: a logged-in session sends no request (one that
\* requests.request() took and did not refuse for its URL or its timeout) that
\* carries its
\* token to a host other than the one the token was obtained from. (login()
\* does nothing on a logged-in session, so there is no fresh login; the
\* response field of a logged-in session is the dict of its latest answered
\* request, the login or a later one, unless the response setter has replaced
\* it, and REQUEST_PATH is the URL of that request.)
C28_HostFixedOnceLoggedIn ==
    [][(/\ sender.logged_in
        /\ Has(sender.response, "REQUEST_PATH")
        /\ Len(call'.sent) = 1
        /\ call'.raised \notin RequestRefused
        /\ call'.sent[1].headers["Authorization"] # << >>)
        => HostOf(call'.sent[1].url) = HostOf(sender.response["REQUEST_PATH"])]_vars

(***************************************************************************)
(* ResponseHandler: setters and result, checked under SpecHandler          *)
(***************************************************************************)

\* The value handed to the response setter is a dict with a RETURN_CODE and a
\* MESSAGE
HasCodeAndMessage(v) ==
    v.type = "dict" /\ Has(v.value, "RETURN_CODE") /\ Has(v.value, "MESSAGE")

\* C29, as claimed: setting verb to a value outside {GET, POST, PUT, DELETE},
\* or response to a value that is not a dict or has no RETURN_CODE or no
\* MESSAGE or an empty MESSAGE, raises and leaves verb, response and result as
\* they were.
C29_Original ==
    [][/\ (handler_call'.op = "verb" /\ handler_call'.value \notin {"GET", "POST", "PUT", "DELETE"})
            => handler_call'.raised # "None" /\ handler' = handler
       /\ (/\ handler_call'.op = "response"
           /\ \/ ~HasCodeAndMessage(handler_call'.value)
              \/ handler_call'.value.value["MESSAGE"] = "")
            => handler_call'.raised # "None" /\ handler' = handler]_vars

\* C29, amended: setting verb to a value outside {GET, POST, PUT, DELETE}, or
\* response to a value that is not a dict or has no RETURN_CODE or no MESSAGE,
\* raises and leaves verb, response and result as they were; every other
\* value, a dict with an empty MESSAGE included, is stored.
C29_SettersValidate ==
    [][/\ handler_call'.op = "verb"
            => IF handler_call'.value \notin {"GET", "POST", "PUT", "DELETE"}
               THEN handler_call'.raised = "ValueError" /\ handler' = handler
               ELSE /\ handler_call'.raised = "None"
                    /\ handler' = [handler EXCEPT !.verb = handler_call'.value]
       /\ handler_call'.op = "response"
            => IF ~HasCodeAndMessage(handler_call'.value)
               THEN /\ handler_call'.raised \in {"TypeError", "ValueError"}
                    /\ handler' = handler
               ELSE /\ handler_call'.raised = "None"
                    /\ handler' = [handler EXCEPT !.response = handler_call'.value.value]]_vars

C29_Witness ==
    /\ handler_call.op = "response"
    /\ handler_call.raised = "ValueError"
    /\ handler_call.value.type = "dict"
    /\ ~Has(handler_call.value.value, "RETURN_CODE")
    /\ handler.verb = "PUT"
    /\ handler.response # EmptyDict
    /\ handler.result # EmptyDict

\* C30: after every commit() that returns, result has exactly the two keys
\* found and success when the verb is GET, and exactly the two keys changed and
\* success when it is POST, PUT or DELETE, each with a boolean value, whatever
\* the handler was committed with before.
C30_ResultHasTwoFields ==
    (handler_call.op = "commit" /\ handler_call.raised = "None")
        => /\ handler.verb \in {"GET", "POST", "PUT", "DELETE"}
           /\ DOMAIN handler.result =
                (IF handler.verb = "GET" THEN {"found", "success"} ELSE {"changed", "success"})
           /\ \A k \in DOMAIN handler.result : handler.result[k] \in BOOLEAN

C30_Witness ==
    /\ handler_call.op = "commit"
    /\ handler_call.raised = "None"
    /\ handler.verb = "DELETE"
    /\ DOMAIN handler.result = {"changed", "success"}
    /\ handler.result["changed"] = FALSE
    /\ handler.result["success"] = FALSE

(***************************************************************************)
(* Two callers of one Sender: properties, checked under SpecCallers        *)
(***************************************************************************)

\* The request commit() dispatched is the one caller c configured
CarriesRequestOf(req, c) ==
    /\ req.url = <<"https://", sender.ip4>> \o CallerRequest[c].path
    /\ req.verb = CallerRequest[c].verb
    /\ req.data = [json_dumps |-> CallerRequest[c].payload]

\* C31: when the callers of one Sender serialize their configure-and-commit
\* sequences, every request a caller's commit() hands to requests.request()
\* carries the path, the verb and the payload that caller set.  (Without
\* serialization a request mixing one caller's path with the other's verb is
\* handed over: C31_Witness.)
C31_SerializedCallersSendTheirOwn ==
    (callers.serialized /\ Len(call.sent) = 1)
        => CarriesRequestOf(call.sent[1], call.caller)

\* Unserialized callers: A's commit() handed over A's path with B's verb
C31_Witness ==
    /\ ~callers.serialized
    /\ call.op = "requests.request" /\ call.caller = "A" /\ Len(call.sent) = 1
    /\ call.sent[1].url = <<"https://", sender.ip4>> \o CallerRequest["A"].path
    /\ call.sent[1].verb = CallerRequest["B"].verb

(***************************************************************************)
(* Sender: URL and token properties, checked under Spec                    *)
(***************************************************************************)

\* C32: the URL of every dispatched request is "https://", the host, one "/"
\* and the path without its leading "/" when it has one; the host is ip4 when
\* ip4 is set and ip6 otherwise.
C32_UrlIsHostSlashPath ==
    \A i \in DOMAIN call.sent :
        call.sent[i].url =
            <<"https://", IF sender.ip4 # "" THEN sender.ip4 ELSE sender.ip6, "/">>
                \o (IF sender.path[1] = "/" THEN Tail(sender.path) ELSE sender.path)

\* commit() with ip4 and ip6 both set and a path that has no leading "/"
C32_Witness ==
    /\ call.op = "commit" /\ Len(call.sent) = 1
    /\ sender.ip4 = "10.1.1.1" /\ sender.ip6 = "2001:db8::1"
    /\ sender.path = <<"templates">>
    /\ call.sent[1].url = <<"https://", "10.1.1.1", "/", "templates">>

\* C37: when a login or refresh response carries a session cookie and a body
\* token that differs from the cookie's value, the session token after the
\* call is the body token.
C37_BodyTokenOverridesCookie ==
    \A T \in {<<"T1">>, <<"T2">>} :
        ( /\ call.op \in {"login", "refresh_login"}
          /\ Len(call.recv) = 1
          /\ Has(call.recv[1].headers, "Set-Cookie")
          /\ call.recv[1].headers["Set-Cookie"] = SessionCookie(<<"C1">>)
          /\ json_valid(call.recv[1].text) /\ ~json_null(call.recv[1].text)
          /\ Has(json_loads(call.recv[1].text), "jwttoken")
          /\ json_loads(call.recv[1].text)["jwttoken"] = T )
            => sender.token = T

\* login() returned on a response with the cookie C1 and the body token T1
C37_Witness ==
    /\ call.op = "login" /\ call.raised = "None" /\ Len(call.recv) = 1
    /\ Has(call.recv[1].headers, "Set-Cookie")
    /\ call.recv[1].headers["Set-Cookie"] = SessionCookie(<<"C1">>)
    /\ sender.token = <<"T1">>

\* C38: refresh_login() leaves the authenticated flag as it was, and when it
\* returns the token is set to the token of the response body; a login() that
\* follows a returned refresh_login() on a session that is not logged in sends
\* a request.
C38_RefreshKeepsLoggedIn ==
    [][ /\ call'.op = "refresh_login"
            => /\ sender'.logged_in = sender.logged_in
               /\ call'.raised = "None"
                    => /\ Len(call'.recv) = 1
                       /\ BodyHasToken(call'.recv[1])
                       /\ sender'.token = json_loads(call'.recv[1].text)["jwttoken"]
        /\ (call.op = "refresh_login" /\ call.raised = "None" /\ ~sender.logged_in
                /\ call'.op = "login")
            => Len(call'.sent) = 1 /\ call'.raised \notin RequestRefused ]_vars

\* login() on a session that is not logged in and holds the token T1 of an
\* earlier refresh_login(): its request carries that token
C38_Witness ==
    /\ call.op = "login" /\ Len(call.sent) = 1
    /\ Attaches(call.sent[1], <<"T1">>)

(***************************************************************************)
(* ResponseHandler: further properties, checked under SpecHandler          *)
(***************************************************************************)

\* C35: for POST, PUT and DELETE the result commit() stored is the one every
\* response that differs from the committed response in RETURN_CODE only is
\* given; a response with status 500, message "OK" and no error is a success
\* that changed the controller.
C35_StatusCodeIgnored ==
    (/\ handler_call.op = "commit" /\ handler_call.raised = "None"
     /\ handler.verb \in {"POST", "PUT", "DELETE"})
        => /\ \A c \in HandlerCodes :
                handle_response(handler.verb, [handler.response EXCEPT !["RETURN_CODE"] = c])
                    = handler.result
           /\ (handler.response["RETURN_CODE"] = 500 /\ handler.response["MESSAGE"] = "OK"
                    /\ ~Has(handler.response, "ERROR"))
                => handler.result = Result2("changed", TRUE, "success", TRUE)

\* commit() of a PUT whose response has status 500, message "OK" and no error
C35_Witness ==
    /\ handler_call.op = "commit" /\ handler_call.raised = "None"
    /\ handler.verb = "PUT"
    /\ handler.response["RETURN_CODE"] = 500 /\ handler.response["MESSAGE"] = "OK"
    /\ ~Has(handler.response, "ERROR")
    /\ handler.result = Result2("changed", TRUE, "success", TRUE)

\* C36: the verb setter, the response setter and a commit() that raises leave
\* result as it was, and a commit() that returns stores the classification of
\* the verb and response it was called with (so that committing again with the
\* same verb and response stores the same result).
C36_ResultChangesOnlyInCommit ==
    [][ /\ handler_call'.op \in {"verb", "response"} => handler'.result = handler.result
        /\ (handler_call'.op = "commit" /\ handler_call'.raised # "None")
            => handler'.result = handler.result
        /\ (handler_call'.op = "commit" /\ handler_call'.raised = "None")
            => /\ handler'.verb = handler.verb /\ handler'.response = handler.response
               /\ handler'.result = handle_response(handler.verb, handler.response) ]_vars

\* After a commit(), the response setter stored a response that is classified
\* differently: result is still the one of the commit
C36_Witness ==
    /\ handler_call.op = "response" /\ handler_call.raised = "None"
    /\ handler.result # EmptyDict
    /\ handler.verb # ""
    /\ handler.result # handle_response(handler.verb, handler.response)

(***************************************************************************)
(* RestApiToGui: properties, checked under SpecGui                         *)
(***************************************************************************)

GuiGetters == {"parameter_names", "parameter_section", "parameter_display_name", "parameter_description"}

\* C33: the four getters raise ValueError while no commit() has returned, and
\* the three per-parameter getters also while parameter_name is unset; commit()
\* raises ValueError without retrieving a template when template_name is unset
\* or rest_send has no params; a commit() that raises leaves the refreshed flag
\* as it was, and only a commit() that returns sets it.
C33_CommitBeforeRead ==
    [][ /\ (gui_call'.op \in GuiGetters /\ ~gui.refreshed)
            => /\ gui_call'.raised \in
                    {"ValueError: Call RestApiToGui.commit before accessing parameter_names.",
                     "ValueError: Call RestApiToGui.commit before accessing"}
               /\ gui_call'.value = "None"
        /\ (gui_call'.op \in GuiGetters \ {"parameter_names"} /\ gui.refreshed
                /\ gui.parameter_name = << >>)
            => /\ gui_call'.raised = "ValueError: parameter_name must be set before accessing"
               /\ gui_call'.value = "None"
        /\ (gui_call'.op = "commit" /\ gui.template_name = "")
            => /\ gui_call'.raised = "ValueError: template_name must be set."
               /\ gui_call'.refreshes = 0
        /\ (gui_call'.op = "commit" /\ gui.template_name # "" /\ gui.rest_send.params = EmptyDict)
            => /\ gui_call'.raised =
                    "ValueError: rest_send must be set to an instance of RestSend with params set."
               /\ gui_call'.refreshes = 0
        /\ (gui_call'.op = "commit" /\ gui_call'.raised # "None")
            => gui'.refreshed = gui.refreshed
        /\ (gui'.refreshed /\ ~gui.refreshed)
            => gui_call'.op = "commit" /\ gui_call'.raised = "None" ]_vars

\* The first commit() failed to retrieve the template: the instance is not
\* refreshed
C33_Witness ==
    /\ gui_call.op = "commit"
    /\ gui_call.raised = "ValueError: Failed to retrieve template"
    /\ gui_call.refreshes = 1
    /\ ~gui.refreshed

\* The members of a list
Members(s) == {s[i] : i \in DOMAIN s}

\* C34: once commit() has returned, the keys of the mapping are the names of
\* the template's parameters that are not internal, are not in section
\* "Hidden", and contain neither "_PREV" nor "DCNM_ID"; the list the
\* parameter_names getter returns holds each key once, in ascending order.
C34_MappingIsTheShownParameters ==
    /\ gui.refreshed
        => DOMAIN gui.rest_api_parameter_to_gui_mapping =
            {p.name : p \in {q \in Members(parameters(gui.template)) :
                                /\ ~q.internal
                                /\ q.section # "Hidden"
                                /\ ~\E i \in DOMAIN q.name : q.name[i] \in {"_PREV", "DCNM_ID"}}}
    /\ (gui_call.op = "parameter_names" /\ gui_call.raised = "None")
        => /\ Members(gui_call.value) = DOMAIN gui.rest_api_parameter_to_gui_mapping
           /\ \A i, j \in DOMAIN gui_call.value :
                i < j => Rank(gui_call.value[i]) < Rank(gui_call.value[j])

\* The template lists FABRIC_NAME before BGP_AS; parameter_names returned the
\* two names sorted
C34_Witness ==
    /\ gui_call.op = "parameter_names"
    /\ gui.parameter_names = <<N_FABRIC_NAME, N_BGP_AS>>
    /\ gui_call.value = <<N_BGP_AS, N_FABRIC_NAME>>

\* C39: a commit() that fails to retrieve the template on an instance that is
\* refreshed leaves the refreshed flag, the mapping and parameter_names as the
\* earlier commit() left them, whatever template_name is now, so that the
\* getters return what they returned before.
C39_FailedCommitKeepsMapping ==
    [][ (/\ gui.refreshed
         /\ gui_call'.op = "commit"
         /\ gui_call'.raised = "ValueError: Failed to retrieve template")
            => /\ gui'.refreshed
               /\ gui'.rest_api_parameter_to_gui_mapping = gui.rest_api_parameter_to_gui_mapping
               /\ gui'.parameter_names = gui.parameter_names
               /\ parameter_names(gui').value = parameter_names(gui).value
               /\ \A key \in {"section", "display_name", "description"} :
                    parameter_getter(gui', key).value = parameter_getter(gui, key).value ]_vars

\* A commit() failed to retrieve the template on an instance whose earlier
\* commit() built a mapping with FABRIC_NAME in it
C39_Witness ==
    /\ gui_call.op = "commit"
    /\ gui_call.raised = "ValueError: Failed to retrieve template"
    /\ gui.refreshed
    /\ N_FABRIC_NAME \in DOMAIN gui.rest_api_parameter_to_gui_mapping

====
